---- MODULE Spec2Model ----
(***************************************************************************)
(* Model of the spreadsheet synchronisation of Eunoia4: the server action  *)
(* exportToGoogleSheets (src/src/actions/export-to-google-sheets.ts) and   *)
(* the remote sheet it reconciles one daily entry against; the page        *)
(* component Home (src/src/app/page.tsx) with its scoring, and the         *)
(* component MoodAnalysis (src/src/components/mood-analysis.tsx) that      *)
(* starts the exports.                                                     *)
(*                                                                         *)
(* Text is a sequence of character codes; code 0 is white space.  A cell   *)
(* is a text, a row a sequence of cells, the sheet a sequence of rows      *)
(* (row 1 first).  A date text stands for one canonical YYYY-MM-DD string. *)
(***************************************************************************)
EXTENDS Integers, Sequences, FiniteSets, TLC

VARIABLES env, sheet, ex, home, analysis, store, sheetAnalysis, speech

vars == <<env, sheet, ex, home, analysis, store, sheetAnalysis, speech>>

(***************************************************************************)
(* Bounds                                                                  *)
(***************************************************************************)
\* longest input (rows of one export request)
MaxRows == 2
\* most score edits made on the page
MaxEdits == 1
\* most exports started from the page
MaxExports == 2
\* an export is only started while the sheet has at most this many rows
MaxSheetRows == 3

(***************************************************************************)
(* Small helpers                                                           *)
(***************************************************************************)
Min(a, b) == IF a <= b THEN a ELSE b

Max(a, b) == IF a >= b THEN a ELSE b

SetMax(S) == CHOOSE x \in S : \A y \in S : y <= x

Space == 0

NoText == "-"

NoCount == -1

\* String.prototype.trim: strip leading and trailing white space
RECURSIVE TrimLeft(_)
TrimLeft(s) == IF s # <<>> /\ Head(s) = Space THEN TrimLeft(Tail(s)) ELSE s

RECURSIVE TrimRight(_)
TrimRight(s) ==
    IF s # <<>> /\ s[Len(s)] = Space THEN TrimRight(SubSeq(s, 1, Len(s) - 1)) ELSE s

Trim(s) == TrimRight(TrimLeft(s))

\* row.map(h => String(h).trim())
TrimAll(row) == [i \in 1..Len(row) |-> Trim(row[i])]

(***************************************************************************)
(* Module-level configuration (environment variables read once at load)    *)
(***************************************************************************)
\* the private key as a sequence of tokens: the BEGIN line, the END line,
\* the key body, a real newline ("NL") and the two characters backslash-n
\* ("ESCNL") that the environment file uses for a newline
KeyGood == <<"BEGIN", "ESCNL", "body", "ESCNL", "END", "ESCNL">>

KeyNoTrailingNewline == <<"BEGIN", "ESCNL", "body", "ESCNL", "END">>

KeyNoBegin == <<"body", "ESCNL", "END", "ESCNL">>

KeyMissing == <<>>

Envs ==
    { [SPREADSHEET_ID |-> TRUE,  GOOGLE_SERVICE_ACCOUNT_EMAIL |-> TRUE,  RAW_GOOGLE_PRIVATE_KEY |-> KeyGood, TZ |-> 0],
      [SPREADSHEET_ID |-> FALSE, GOOGLE_SERVICE_ACCOUNT_EMAIL |-> TRUE,  RAW_GOOGLE_PRIVATE_KEY |-> KeyGood, TZ |-> 0],
      [SPREADSHEET_ID |-> TRUE,  GOOGLE_SERVICE_ACCOUNT_EMAIL |-> FALSE, RAW_GOOGLE_PRIVATE_KEY |-> KeyGood, TZ |-> 0],
      [SPREADSHEET_ID |-> TRUE,  GOOGLE_SERVICE_ACCOUNT_EMAIL |-> TRUE,  RAW_GOOGLE_PRIVATE_KEY |-> KeyMissing, TZ |-> 0],
      [SPREADSHEET_ID |-> TRUE,  GOOGLE_SERVICE_ACCOUNT_EMAIL |-> TRUE,  RAW_GOOGLE_PRIVATE_KEY |-> KeyNoTrailingNewline, TZ |-> 0],
      [SPREADSHEET_ID |-> TRUE,  GOOGLE_SERVICE_ACCOUNT_EMAIL |-> TRUE,  RAW_GOOGLE_PRIVATE_KEY |-> KeyNoBegin, TZ |-> 0] }

\* RAW_GOOGLE_PRIVATE_KEY.replace(/\\n/g, '\n'); undefined when the raw key is missing
GOOGLE_PRIVATE_KEY(e) ==
    LET raw == e.RAW_GOOGLE_PRIVATE_KEY
    IN  [i \in 1..Len(raw) |-> IF raw[i] = "ESCNL" THEN "NL" ELSE raw[i]]

isPrivateKeyFormatValidNoEnd(key) == key # <<>> /\ key[1] = "BEGIN"

isPrivateKeyFormatValid(key) ==
    /\ key # <<>>
    /\ key[1] = "BEGIN"
    /\ Len(key) >= 2
    /\ key[Len(key) - 1] = "END"
    /\ key[Len(key)] = "NL"

missingVars(e) ==
    (IF ~e.SPREADSHEET_ID THEN <<"GOOGLE_SHEET_ID">> ELSE <<>>)
    \o (IF ~e.GOOGLE_SERVICE_ACCOUNT_EMAIL THEN <<"GOOGLE_SERVICE_ACCOUNT_EMAIL">> ELSE <<>>)
    \o (IF e.RAW_GOOGLE_PRIVATE_KEY = <<>> THEN <<"GOOGLE_PRIVATE_KEY (missing)">> ELSE <<>>)
    \o (IF GOOGLE_PRIVATE_KEY(e) = <<>> /\ e.RAW_GOOGLE_PRIVATE_KEY # <<>>
        THEN <<"GOOGLE_PRIVATE_KEY (format error)">> ELSE <<>>)

(***************************************************************************)
(* Inputs of the server action                                             *)
(***************************************************************************)
\* themeOrder of theme-assessment: the 7 themes in sheet-column order
themeOrder ==
    <<"dreaming", "moodScore", "training", "diet",
      "socialRelations", "familyRelations", "selfEducation">>

\* keyof ThemeScores
Themes == {themeOrder[i] : i \in 1..Len(themeOrder)}

\* getQuestionsForTheme(themeKey).length
questionsCount == 8

QuestionIndexes == 0..(questionsCount - 1)

\* a column name: the fixed word of the name and, for the columns of a
\* theme or of a question, the theme label and the question text it carries
ColumnName(word, themeKey, qIndex) == [word |-> word, theme |-> themeKey, question |-> qIndex]

\* generateSheetHeaders: three leading columns, a total per theme, a score
\* and an answer column per question of each theme, two columns of notes
generateSheetHeaders ==
    LET perTheme == [i \in 1..Len(themeOrder) |->
                        ColumnName("Wynik Ogolny", themeOrder[i], -1)]
        perQuestion ==
            [n \in 1..(2 * Len(themeOrder) * questionsCount) |->
                LET themeKey == themeOrder[((n - 1) \div (2 * questionsCount)) + 1]
                    qIndex == ((n - 1) % (2 * questionsCount)) \div 2
                IN  IF n % 2 = 1 THEN ColumnName("Wynik", themeKey, qIndex)
                    ELSE ColumnName("Odpowiedz", themeKey, qIndex)]
    IN  << ColumnName("Date", "", -1), ColumnName("Dzien Tygodnia", "", -1),
           ColumnName("Suma Punktow", "", -1) >>
          \o perTheme \o perQuestion
          \o << ColumnName("Pozytywy", "", -1), ColumnName("Negatywy", "", -1) >>

\* number of columns of the application's header
SheetHeaderCount == Len(generateSheetHeaders)

\* SHEET_HEADERS, the header the client sends: the column names of
\* generateSheetHeaders, the i-th name written as the text <<20 + i>>
SHEET_HEADERS == [i \in 1..SheetHeaderCount |-> <<20 + i>>]

\* earlier layouts of the sheet: the first three columns only, the same
\* with a padded cell, and the same length with a renamed column
HeadersABC == << <<21>>, <<22>>, <<23>> >>

HeadersABCPadded == << <<21>>, <<22, Space>>, <<23>> >>

HeadersABX == << <<21>>, <<22>>, <<99>> >>

HeaderLayouts == {HeadersABC, HeadersABCPadded, HeadersABX, SHEET_HEADERS}

\* entry.date values
Dates == {11, 12}

\* two versions of the remaining cells of an entry's row
Payloads == {1, 2}

\* a data row of n cells: the date cell, then the entry's values
Row(d, v, n) == [i \in 1..n |-> IF i = 1 THEN <<d>> ELSE <<v>>]

\* the entries exported under a layout; under the 124-column layout one
\* version of each entry is enough, its rows are never rewritten in place
RowsOfWidth(n) ==
    {Row(d, v, n) : d \in Dates, v \in IF n = SheetHeaderCount THEN {1} ELSE Payloads}

RECURSIVE SeqsUpTo(_, _)
SeqsUpTo(S, n) ==
    IF n = 0 THEN {<<>>}
    ELSE LET shorter == SeqsUpTo(S, n - 1)
         IN  shorter \cup {Append(q, x) : q \in {t \in shorter : Len(t) = n - 1}, x \in S}

\* the rows of one request carry distinct dates
DataOfWidth(n) ==
    {dt \in SeqsUpTo(RowsOfWidth(n), MaxRows) :
        \A i, j \in 1..Len(dt) : i # j => dt[i][1] # dt[j][1]}

ExportInputs ==
    UNION {{[headers |-> h, data |-> dt] : dt \in DataOfWidth(Len(h))} : h \in HeaderLayouts}

\* the requests the client component builds: one row per export
SingleEntryInputs == {inp \in ExportInputs : Len(inp.data) = 1}

(***************************************************************************)
(* The remote sheet (Google Sheets values API as the action uses it)       *)
(***************************************************************************)
\* the ways the environment can fail a remote call: HTTP 400 with the
\* message 'Unable to parse range', HTTP 403, HTTP 404, anything else
FailKinds == {"400 Unable to parse range", "403", "404", "other"}

Overlay(old, new) ==
    [i \in 1..Max(Len(old), Len(new)) |-> IF i <= Len(new) THEN new[i] ELSE old[i]]

\* values.get A1:ZZ1 -> data.values?.[0] || []
SheetFirstRow(s) == IF s = <<>> THEN <<>> ELSE s[1]

\* values.clear on the whole tab
SheetClear(s) == <<>>

\* values.update at A1 with one row of values
SheetUpdateA1(s, hdr) ==
    IF s = <<>> THEN <<hdr>> ELSE [s EXCEPT ![1] = Overlay(@, hdr)]

\* values.get A2:A -> one one-cell row per data row, an empty row for a
\* row whose cell in column A is blank
SheetDateColumn(s) ==
    [i \in 1..(Len(s) - 1) |->
        IF s[i + 1] = <<>> THEN <<>>
        ELSE IF s[i + 1][1] = <<>> THEN <<>>
        ELSE <<s[i + 1][1]>>]

\* values.append with INSERT_ROWS: the rows go below the last row
SheetAppend(s, rows) == s \o rows

\* column letters in A1 notation as the remote reads them: 'A'..'Z' are
\* columns 1..26, any other single character is no column (0)
ColumnOfCharCode(code) == IF code \in 65..90 THEN code - 64 ELSE 0

\* a range the remote can resolve: an existing column A..Z, values that fit
RangeValid(u) ==
    /\ ColumnOfCharCode(u.range.endCharCode) >= 1
    /\ Len(u.values[1]) <= ColumnOfCharCode(u.range.endCharCode)
    /\ u.range.startRow = u.range.endRow

WriteRange(s, u) ==
    LET r == u.range.startRow
        grown == IF r <= Len(s) THEN s ELSE s \o [i \in 1..(r - Len(s)) |-> <<>>]
    IN  [grown EXCEPT ![r] = Overlay(@, u.values[1])]

\* values.batchUpdate: the ranges are written in request order
RECURSIVE SheetBatchUpdate(_, _)
SheetBatchUpdate(s, updates) ==
    IF updates = <<>> THEN s
    ELSE SheetBatchUpdate(WriteRange(s, Head(updates)), Tail(updates))

(***************************************************************************)
(* exportToGoogleSheets: pure parts                                        *)
(***************************************************************************)
Clients == {"client"}

\* the remote operations in the order the action's text issues them
OpOrder == <<"auth", "getHeaders", "clear", "updateHeaders", "getDates", "batchUpdate", "append">>

OpRank(op) == CHOOSE i \in 1..Len(OpOrder) : OpOrder[i] = op

headersMatchPrefixOnly(existingHeaders, headers) ==
    LET appHeadersClean == TrimAll(headers)
        comparisonLength == Min(Len(appHeadersClean), Len(existingHeaders))
    IN  SubSeq(existingHeaders, 1, comparisonLength) = SubSeq(appHeadersClean, 1, comparisonLength)

headersMatchUntrimmed(existingHeaders, headers) ==
    LET comparisonLength == Min(Len(headers), Len(existingHeaders))
    IN  /\ SubSeq(existingHeaders, 1, comparisonLength) = SubSeq(headers, 1, comparisonLength)
        /\ Len(headers) = Len(existingHeaders)

headersMatchLengthDiffers(existingHeaders, headers) ==
    LET appHeadersClean == TrimAll(headers)
        comparisonLength == Min(Len(appHeadersClean), Len(existingHeaders))
    IN  /\ SubSeq(existingHeaders, 1, comparisonLength) = SubSeq(appHeadersClean, 1, comparisonLength)
        /\ Len(appHeadersClean) # Len(existingHeaders)

\* existingHeaders is the sheet's first row, already trimmed by the probe
headersMatch(existingHeaders, headers) ==
    LET appHeadersClean == TrimAll(headers)
        comparisonLength == Min(Len(appHeadersClean), Len(existingHeaders))
    IN  /\ SubSeq(existingHeaders, 1, comparisonLength) = SubSeq(appHeadersClean, 1, comparisonLength)
        /\ Len(appHeadersClean) = Len(existingHeaders)

performOverwriteAlways(sheetExistsAndHasHeaders, existingHeaders, headers) ==
    ~headersMatch(existingHeaders, headers)

performOverwrite(sheetExistsAndHasHeaders, existingHeaders, headers) ==
    sheetExistsAndHasHeaders /\ ~headersMatch(existingHeaders, headers)

\* the regular expression ^\d{4}-\d{2}-\d{2}$ : one date text
IsIsoDateText(s) == Len(s) = 1 /\ s[1] \in Dates

\* a cell of type number is written as the one-code text of its value; the
\* numbers met in a date column are date serials, all above every
\* character code
excelEpochDiff == 25569

typeofNumber(v) == Len(v) = 1 /\ v[1] >= excelEpochDiff

\* a date serial: the number of days from 1899-12-30 to the day that lies
\* `day` days after 1970-01-01
SerialOf(day) == <<excelEpochDiff + day>>

\* new Date(Date.UTC(0, 0, rawDateValue - 1)): the instant, in hours from
\* 1970-01-01T00:00Z, of the midnight UTC that starts the serial's day
DateUTCOfSerial(serial) == (serial - excelEpochDiff) * 24

\* format(date, 'yyyy-MM-dd'): the calendar day of the instant on the
\* server's clock, TZ being its offset from UTC in hours
format(hours) == <<(hours + env.TZ) \div 24>>

\* parseISO(String(v)), then new Date(String(v)): a text that is neither a
\* date text nor a number is no date
isValidDateText(v) == FALSE

\* key of a date cell read from column A; <<>> when the cell is blank or
\* cannot be read as a date
dateStringForKey(rawDateValue) ==
    IF rawDateValue = <<>> THEN <<>>
    ELSE IF ~typeofNumber(rawDateValue) /\ IsIsoDateText(Trim(rawDateValue))
    THEN Trim(rawDateValue)
    ELSE IF typeofNumber(rawDateValue)
    THEN format(DateUTCOfSerial(rawDateValue[1]))
    ELSE IF isValidDateText(rawDateValue) THEN rawDateValue
    ELSE <<>>

RowNumberOffByOne(index) == index + 1

\* sheet row of the index-th (0-based) value of the range A2:A
RowNumber(index) == index + 2

existingDatesMapCompacted(values) ==
    LET keyAt(i) == IF values[i] = <<>> THEN <<>> ELSE dateStringForKey(values[i][1])
        keys == {keyAt(i) : i \in 1..Len(values)} \ {<<>>}
        filled(i) == Cardinality({j \in 1..i : values[j] # <<>>})
    IN  [k \in keys |-> RowNumber(filled(SetMax({i \in 1..Len(values) : keyAt(i) = k})) - 1)]

\* existingDatesMap: date key -> sheet row; a later cell with the same key wins
existingDatesMap(values) ==
    LET keyAt(i) == IF values[i] = <<>> THEN <<>> ELSE dateStringForKey(values[i][1])
        keys == {keyAt(i) : i \in 1..Len(values)} \ {<<>>}
    IN  [k \in keys |-> RowNumber(SetMax({i \in 1..Len(values) : keyAt(i) = k}) - 1)]

\* String.fromCharCode('A'.charCodeAt(0) + headers.length - 1), as a character code
endColumnLetter(headers) == 65 + Len(headers) - 1

\* the range `${SHEET_NAME}!A${rowIndex}:${endColumnLetter}${rowIndex}`
UpdateRange(rowIndex, headers) ==
    [startCharCode |-> 65, startRow |-> rowIndex,
     endCharCode |-> endColumnLetter(headers), endRow |-> rowIndex]

RECURSIVE FilterSeq(_, _)
FilterSeq(seq, S) ==
    IF seq = <<>> THEN <<>>
    ELSE IF Head(seq)[1] \in S THEN <<Head(seq)>> \o FilterSeq(Tail(seq), S)
    ELSE FilterSeq(Tail(seq), S)

rowsToUpdateOfNone(data, map, headers) == <<>>

\* data.forEach: rows whose date is in the map are queued for update
rowsToUpdateOf(data, map, headers) ==
    LET found == FilterSeq(data, DOMAIN map)
    IN  [i \in 1..Len(found) |->
            [range |-> UpdateRange(map[found[i][1]], headers), values |-> <<found[i]>>]]

rowsToAppendAll(data, map) == data

\* data.forEach: the other rows are queued for append
rowsToAppendOf(data, map) ==
    FilterSeq(data, {r[1] : r \in {data[i] : i \in 1..Len(data)}} \ DOMAIN map)

\* summaryMessage, as its parts
summaryMessage(e) ==
    LET anyPart == e.rowsUpdatedCount > 0 \/ e.rowsAppendedCount > 0
    IN  [overwritePrefix |-> e.performOverwrite /\ Len(e.data) > 0,
         updated  |-> IF e.rowsUpdatedCount > 0 THEN e.rowsUpdatedCount ELSE 0,
         appended |-> IF e.rowsAppendedCount > 0 THEN e.rowsAppendedCount ELSE 0,
         text |-> IF anyPart THEN "N wiersz(y) zaktualizowano, M wiersz(y) dodano."
                  ELSE IF /\ Len(e.data) > 0
                          /\ Len(e.rowsToAppend) = 0
                          /\ Len(e.rowsToUpdate) = 0
                          /\ e.sheetExistsAndHasHeaders
                       THEN "Dane z aplikacji sa juz aktualne w arkuszu."
                  ELSE IF Len(e.data) = 0 THEN "Brak danych do wyslania."
                  ELSE "Nie wprowadzono zadnych zmian w arkuszu."]

NoMessage == [overwritePrefix |-> FALSE, updated |-> 0, appended |-> 0, text |-> NoText]

NoResult ==
    [success |-> FALSE, rowsAppended |-> NoCount, rowsUpdated |-> NoCount,
     message |-> NoMessage, error |-> NoText]

\* return { success: false, error }
Failure(e, errorMsg) ==
    [e EXCEPT !.pc = "done",
              !.result = [NoResult EXCEPT !.error = errorMsg]]

\* return { success: true, rowsAppended, rowsUpdated, message }
Success(e) ==
    [e EXCEPT !.pc = "done",
              !.result = [success |-> TRUE, rowsAppended |-> e.rowsAppendedCount,
                          rowsUpdated |-> e.rowsUpdatedCount,
                          message |-> summaryMessage(e), error |-> NoText]]

\* the commit phase from the point where the queues are filled
Commit(e) ==
    IF Len(e.rowsToUpdate) > 0 THEN [e EXCEPT !.pc = "batchUpdate"]
    ELSE IF Len(e.rowsToAppend) > 0 THEN [e EXCEPT !.pc = "append"]
    ELSE Success(e)

Issued(e, op) == [e EXCEPT !.ops = Append(@, op)]

EnvFailed(e, op, kind) ==
    [e EXCEPT !.ops = Append(@, op), !.failed = Append(@, [op |-> op, kind |-> kind])]

(***************************************************************************)
(* Scores and answer labels                                                *)
(***************************************************************************)
\* a score is counted in thousandths: 250 stands for 0.25, 2000 for 2.0

\* type QuestionScore = -0.25 | 0 | 0.25
QuestionScores == {-250, 0, 250}

\* the value of detailedScores[theme][questionIndex] for an unanswered question
undefined == -1

RECURSIVE SumOver(_, _)
SumOver(f, S) ==
    IF S = {} THEN 0
    ELSE LET x == CHOOSE y \in S : TRUE
         IN  f[x] + SumOver(f, S \ {x})

\* obj[key] = value on an object with some keys absent
Put(f, k, v) == [x \in (DOMAIN f) \cup {k} |-> IF x = k THEN v ELSE f[x]]

\* detailedScores[themeKey]?.[qIndex]
ScoreAt(detailedScores, themeKey, qIndex) ==
    IF qIndex \in DOMAIN detailedScores[themeKey]
    THEN detailedScores[themeKey][qIndex] ELSE undefined

\* calculateOverallScores of lib/storage: per theme the sum of the question
\* scores, an absent score counting 0
calculateOverallScores(detailedScores) ==
    [t \in Themes |->
        SumOver(detailedScores[t], (DOMAIN detailedScores[t]) \cap QuestionIndexes)]

\* parseFloat(x.toFixed(2)): the nearest hundredth, a tie away from zero
toFixed2(x) ==
    LET a == IF x < 0 THEN -x ELSE x
        r == ((a + 5) \div 10) * 10
    IN  IF x < 0 THEN -r ELSE r

badThreshold == -750

goodThreshold == 750

averageAtMostReversed(sum, count, threshold) ==
    IF count > 0 THEN sum >= threshold * count ELSE 0 >= threshold

\* sum / count, 0 when count is 0, compared with a threshold; the quotient
\* of a multiple of 0.25 by the count compares with +-0.75 as the exact
\* quotient does, so the comparison is made on sum and threshold * count
averageAtMost(sum, count, threshold) ==
    IF count > 0 THEN sum <= threshold * count ELSE 0 <= threshold

averageAtLeastStrict(sum, count, threshold) ==
    IF count > 0 THEN sum > threshold * count ELSE 0 > threshold

averageAtLeast(sum, count, threshold) ==
    IF count > 0 THEN sum >= threshold * count ELSE 0 >= threshold

calculateMoodFromOverallScoresAverageTotal(scores) ==
    LET themeKeys == DOMAIN scores
        sum == SumOver(scores, themeKeys)
        count == Cardinality(themeKeys)
        average == IF count > 0 THEN sum \div count ELSE 0
    IN  IF averageAtMost(sum, count, badThreshold)
        THEN [icon |-> "Frown", label |-> "Bad", totalScore |-> toFixed2(average)]
        ELSE IF averageAtLeast(sum, count, goodThreshold)
        THEN [icon |-> "Smile", label |-> "Good", totalScore |-> toFixed2(average)]
        ELSE [icon |-> "Meh", label |-> "Normal", totalScore |-> toFixed2(average)]

\* calculateMoodFromOverallScores for the scores of an entry (scores is
\* never undefined there)
calculateMoodFromOverallScores(scores) ==
    LET themeKeys == DOMAIN scores
        sum == SumOver(scores, themeKeys)
        count == Cardinality(themeKeys)
    IN  IF averageAtMost(sum, count, badThreshold)
        THEN [icon |-> "Frown", label |-> "Bad", totalScore |-> toFixed2(sum)]
        ELSE IF averageAtLeast(sum, count, goodThreshold)
        THEN [icon |-> "Smile", label |-> "Good", totalScore |-> toFixed2(sum)]
        ELSE [icon |-> "Meh", label |-> "Normal", totalScore |-> toFixed2(sum)]

\* the answer labels of getAnswerLabelForScore, per score, theme and
\* question (Polish letters written without their diacritics)
NegativeLabels ==
    [ dreaming |->
          << "po g. 23",
             "Ponad godzine",
             "po g. 7",
             "Musial dzwonic kilka razy",
             "tak i mialem problem z ponownym zasnieciem",
             "Bylem nieprzytomny",
             "Koszmary",
             "Nie" >>,
      moodScore |->
          << "bol/infekcja",
             "przygnebienie/smutek",
             "boje sie",
             "brak planu",
             "zapomnialem",
             "nie",
             "nie",
             "nie" >>,
      training |->
          << "ponizej 30 min.",
             "mniej niz 4k",
             "mniej niz 300",
             "mniej niz 15 min",
             "nie",
             "nie",
             "nie",
             "nie" >>,
      diet |->
          << "<1 litr",
             "wzrost o ponad 0,3 kg",
             "za wczesnie i za pozno",
             "przetworzone/wieprzowina",
             "tak",
             "tak",
             "wcale",
             "90 i wiecej" >>,
      socialRelations |->
          << "agresywnie",
             "negatywne emocje",
             "nie mimo okazji",
             "nie",
             "nie mimo okazji",
             "tak przesadnie",
             "nie, a bylo trzeba",
             "nie mimo przestrzeni" >>,
      familyRelations |->
          << "nie mimo wolnego czasu",
             "nie",
             "nie",
             "nie",
             "nie",
             "nie",
             "nie mimo okazji",
             "awantura" >>,
      selfEducation |->
          << "nie",
             "nie",
             "nie",
             "nie",
             "nie",
             "nie",
             "nie",
             "nie" >> ]

NeutralLabels ==
    [ dreaming |->
          << "miedzy g. 22 a 23",
             "ok. pol godziny",
             "ok. 6:30",
             "Wstalem po jednym dzwonku",
             "tak, na krotko",
             "Lekko niedospany",
             "Neutralne / Nie pamietam",
             "Czesciowo" >>,
      moodScore |->
          << "srednio/zmeczenie",
             "neutralny",
             "mam stres",
             "jest plan ogolny",
             "probowalem ale rozproszylem sie",
             "na chwile ale malo konkretnie",
             "tak ale malo przekonujaco",
             "tak ale nic istotnego" >>,
      training |->
          << "ok. 45 min.",
             "4-6k",
             "300-500",
             "15-30 min",
             "czesciowy",
             "czesciowy",
             "powierzchownie",
             "do 3 p." >>,
      diet |->
          << "1-2 litry",
             "bez zmian",
             "przekroczony jeden czas",
             "drob/wolowina",
             "raz i malo",
             "lampke wina",
             "2-3 razy",
             "85-89" >>,
      socialRelations |->
          << "poprawnie",
             "neutralnie/brak",
             "brak okazji",
             "tak ale slabo",
             "brak okazji",
             "raz niewinnie",
             "nie bylo potrzeby",
             "podjalem probe" >>,
      familyRelations |->
          << "tak krotko",
             "krotko i pobieznie",
             "krotko i pobieznie",
             "drobne rzeczy",
             "drobna",
             "nie bylo potrzeby",
             "brak przestrzeni",
             "bylo ok" >>,
      selfEducation |->
          << "krotko, bez skupienia",
             "krotko, bez skupienia",
             "fragmentarycznie",
             "fragmentarycznie",
             "tylko quiz",
             "tak ale bez zastosowania",
             "tylko analiza konta",
             "pobieznie" >> ]

PositiveLabels ==
    [ dreaming |->
          << "przed g. 22",
             "ok. kwadrans",
             "ok. g. 6",
             "Wstalem przed budzikiem",
             "nie",
             "Tak, pelen energii",
             "Przyjemne",
             "Tak" >>,
      moodScore |->
          << "znakomicie",
             "entuzjastyczny",
             "brak leku",
             "plan z checklista",
             "mam focus na cel",
             "tak doglebnie",
             "tak i podzialalo",
             "tak cos wartosciowego" >>,
      training |->
          << "ponad godzine",
             "powyzej 6k",
             "powyzej 500",
             "ponad 45 min",
             "3 partie ciala",
             "pelny",
             "gruntownie",
             "wiecej niz 3 p." >>,
      diet |->
          << ">2 litry",
             "spadek o ponad 0,3 kg",
             "w godz. 10-20",
             "ryba/vege",
             "nie",
             "nie",
             "4 i wiecej",
             "do 84" >>,
      socialRelations |->
          << "przyjaznie",
             "budujace emocje",
             "zainicjowalem rozmowe",
             "tak wzmacniajaco",
             "tak wyrazilem swoje zdanie",
             "nie",
             "tak",
             "tak i fajnie wyszlo" >>,
      familyRelations |->
          << "tak z zaangazowaniem",
             "tak z uwaznoscia",
             "tak z uwaznoscia",
             "duzy wklad",
             "przylozylem sie",
             "tak",
             "tak wyszlo ok",
             "bylo milo" >>,
      selfEducation |->
          << "ponad 30 min uwaznie",
             "ponad 30 min",
             "tak do wykorzystania",
             "tak 30 min",
             "tak przydatny",
             "tak do wykorzystania",
             "tak z inwestycjami",
             "gruntownie" >> ]

getAnswerLabelForScoreFallThrough(themeKey, questionIndex, score) ==
    LET known == themeKey \in Themes /\ questionIndex \in QuestionIndexes
                    /\ ~(themeKey = "selfEducation" /\ questionIndex = 7)
    IN  IF score = -250
        THEN IF known THEN NegativeLabels[themeKey][questionIndex + 1] ELSE "Negative"
        ELSE IF score = 0
        THEN IF known THEN NeutralLabels[themeKey][questionIndex + 1] ELSE "Neutral"
        ELSE IF score = 250
        THEN IF known THEN PositiveLabels[themeKey][questionIndex + 1] ELSE "Positive"
        ELSE "N/A"

getAnswerLabelForScore(themeKey, questionIndex, score) ==
    LET known == themeKey \in Themes /\ questionIndex \in QuestionIndexes
    IN  IF score = -250
        THEN IF known THEN NegativeLabels[themeKey][questionIndex + 1] ELSE "Negative"
        ELSE IF score = 0
        THEN IF known THEN NeutralLabels[themeKey][questionIndex + 1] ELSE "Neutral"
        ELSE IF score = 250
        THEN IF known THEN PositiveLabels[themeKey][questionIndex + 1] ELSE "Positive"
        ELSE "N/A"

(***************************************************************************)
(* The client components' state                                            *)
(***************************************************************************)
\* the invocations of a server action that can be pending at the same time
Invocations == {"first", "second"}

\* useState<DailyEntry | null>(null)
NoEntry ==
    [date |-> 0, scores |-> <<>>, detailedScores |-> <<>>, positives |-> "", negatives |-> ""]

\* !!entry
HasEntry(entry) == entry.date # NoEntry.date

\* format(new Date(), 'yyyy-MM-dd')
Today == CHOOSE d \in Dates : \A other \in Dates : d <= other

\* the state of Home when constructed; loads: the dates whose getDailyEntry
\* promise is pending; edits: the number of score edits made so far
HomeInit ==
    [selectedDate |-> Today,
     dailyEntry |-> NoEntry,
     calculatedMood |-> [icon |-> "Loader2", label |-> "Obliczanie...", totalScore |-> NoCount],
     isClient |-> FALSE,
     isLoadingEntry |-> TRUE,
     loads |-> {},
     edits |-> 0]

\* the state of a MoodAnalysis instance when constructed
MoodAnalysisState ==
    [isClient |-> FALSE, isAnalyzing |-> FALSE, isExporting |-> FALSE,
     error |-> NoText, exportMessage |-> NoText]

\* MoodAnalysis before Home renders it.  exportHandler[k] and
\* analyzeHandler[k]: "none", or whether the instance whose handler awaits
\* invocation k is still "mounted" or already "unmounted"
AnalysisInit ==
    [mounted |-> FALSE,
     state |-> MoodAnalysisState,
     exportHandler |-> [k \in Invocations |-> "none"],
     analyzeHandler |-> [k \in Invocations |-> "none"],
     exports |-> 0]

\* lib/storage before the page has saved anything: no entry under any date
StoreInit == [date \in Dates |-> NoEntry]

\* analyzeSheetData when it is not running; promptToUse is the argument its
\* caller passes (NoText for undefined)
IdleAnalysis ==
    [pc |-> "idle", promptToUse |-> NoText, now |-> 0, sheetEntriesForAI |-> <<>>,
     result |-> [success |-> FALSE, text |-> NoText]]

\* one instance of the useSpeechRecognition hook after its first render:
\* recognitionRef.current is null (0), no SpeechRecognition object has been
\* created, no startListening call is suspended, and the effect's query of
\* the microphone permission is unanswered
SpeechInit ==
    [isListening |-> FALSE,
     permissionStatus |-> "prompt",
     error |-> NoText,
     recognitionRef |-> 0,
     recognition |-> <<>>,
     calls |-> [k \in Invocations |-> "none"],
     queried |-> FALSE]

(***************************************************************************)
(* Daily entries and their sheet rows                                      *)
(***************************************************************************)
ThemeNumber(themeKey) == CHOOSE i \in 1..Len(themeOrder) : themeOrder[i] = themeKey

\* getDailyEntry for a date without a stored record: nothing answered
NewEntry(date) ==
    [date |-> date,
     scores |-> [t \in Themes |-> 0],
     detailedScores |-> [t \in Themes |-> <<>>],
     positives |-> "", negatives |-> ""]

\* a stored record of the date: the first answered questions, theme by theme
\* in themeOrder, all carry the score value; the others are unanswered.  Its
\* scores are those calculateOverallScores gave when it was saved
FilledEntry(date, answered, value) ==
    LET detailed ==
            [t \in Themes |->
                [q \in {i \in QuestionIndexes :
                           (ThemeNumber(t) - 1) * questionsCount + i < answered} |-> value]]
    IN  [date |-> date,
         scores |-> calculateOverallScores(detailed),
         detailedScores |-> detailed,
         positives |-> "", negatives |-> ""]

\* records getDailyEntry can return for a date: the entry of a new day and
\* entries answered up to a question, among them a full theme, a full form
\* and the last question left open
StoredEntries(date) ==
    {NewEntry(date)}
    \cup {FilledEntry(date, n, v) :
             n \in {1, questionsCount - 1, questionsCount, questionsCount + 1,
                    20, 21, 22, 28,
                    Len(themeOrder) * questionsCount - 1, Len(themeOrder) * questionsCount},
             v \in QuestionScores}

\* format(parseISO(entry.date), 'EEEE', { locale: pl })
dayOfWeek(date) ==
    << "poniedzialek", "wtorek", "sroda", "czwartek",
       "piatek", "sobota", "niedziela" >>[(date % 7) + 1]

\* the (score, label) cells of one question: lines 68-75
QuestionCells(entry, themeKey, qIndex) ==
    LET questionScoreValue == ScoreAt(entry.detailedScores, themeKey, qIndex)
        questionScore == IF questionScoreValue \in QuestionScores
                         THEN questionScoreValue ELSE undefined
    IN  << IF questionScore = undefined THEN 0 ELSE questionScore,
           getAnswerLabelForScore(themeKey, qIndex, questionScore) >>

prepareDataForSheetExportNoTotal(entry) ==
    IF ~HasEntry(entry) THEN <<>>
    ELSE LET themeCells == [i \in 1..Len(themeOrder) |-> entry.scores[themeOrder[i]]]
             pairCells ==
                 [n \in 1..(2 * Len(themeOrder) * questionsCount) |->
                     LET themeKey == themeOrder[((n - 1) \div (2 * questionsCount)) + 1]
                         qIndex == ((n - 1) % (2 * questionsCount)) \div 2
                     IN  QuestionCells(entry, themeKey, qIndex)[((n - 1) % 2) + 1]]
         IN  << << <<entry.date>>, dayOfWeek(entry.date) >>
                   \o themeCells \o pairCells
                   \o << entry.positives, entry.negatives >> >>

\* prepareDataForSheetExport: no row without an entry, else the one row
\* date, week day, total, 7 theme scores, 56 (score, label) pairs, 2 notes
prepareDataForSheetExport(entry) ==
    IF ~HasEntry(entry) THEN <<>>
    ELSE LET totalSum == SumOver(entry.scores, Themes)
             themeCells == [i \in 1..Len(themeOrder) |-> entry.scores[themeOrder[i]]]
             pairCells ==
                 [n \in 1..(2 * Len(themeOrder) * questionsCount) |->
                     LET themeKey == themeOrder[((n - 1) \div (2 * questionsCount)) + 1]
                         qIndex == ((n - 1) % (2 * questionsCount)) \div 2
                     IN  QuestionCells(entry, themeKey, qIndex)[((n - 1) % 2) + 1]]
         IN  << << <<entry.date>>, dayOfWeek(entry.date), toFixed2(totalSum) >>
                   \o themeCells \o pairCells
                   \o << entry.positives, entry.negatives >> >>

(***************************************************************************)
(* exportToGoogleSheets: one invocation, one step per suspension point     *)
(***************************************************************************)
\* locals of an invocation.  ops: the remote calls issued so far; failed:
\* those the environment failed, with the kind of failure; sheet0: the sheet
\* when the call started; repeat: the previous call succeeded with the very
\* same input, and prevFailed tells whether the environment failed one of
\* that call's remote calls; retryOf: "none", or how the previous call, made
\* with the very same input, failed (see FailedAt)
IdleExport ==
    [pc |-> "idle", headers |-> <<>>, data |-> <<>>,
     existingHeaders |-> <<>>, sheetExistsAndHasHeaders |-> FALSE,
     performOverwrite |-> FALSE,
     rowsToUpdate |-> <<>>, rowsToAppend |-> <<>>,
     rowsUpdatedCount |-> 0, rowsAppendedCount |-> 0,
     result |-> NoResult,
     ops |-> <<>>, failed |-> <<>>, sheet0 |-> <<>>,
     repeat |-> FALSE, prevFailed |-> FALSE,
     retryOf |-> "none"]

Init ==
    /\ env \in Envs
    /\ sheet = <<>>
    /\ ex = [c \in Clients |-> IdleExport]
    /\ home = HomeInit
    /\ analysis = AnalysisInit
    /\ store = StoreInit
    /\ sheetAnalysis = IdleAnalysis
    /\ speech = SpeechInit

\* lines 77-110: configuration checks and input validation, up to the first await
Enter(e) ==
    IF missingVars(env) # <<>>
    THEN Failure(e, "Server configuration error: Missing or invalid environment variables")
    ELSE IF ~isPrivateKeyFormatValid(GOOGLE_PRIVATE_KEY(env))
    THEN Failure(e, "Invalid GOOGLE_PRIVATE_KEY format in .env.local")
    ELSE [e EXCEPT !.pc = "auth"]

\* a call of the server action
exportToGoogleSheets(c, input) ==
    /\ ex[c].pc = "idle"
    /\ Len(sheet) <= MaxSheetRows
    /\ ex' = [ex EXCEPT ![c] =
            Enter([IdleExport EXCEPT !.headers = input.headers,
                                     !.data = input.data,
                                     !.sheet0 = sheet])]
    /\ UNCHANGED <<env, sheet, home, analysis, store, sheetAnalysis, speech>>

\* the caller repeats the call it has just seen succeed, with the same input
exportAgain(c) ==
    /\ ex[c].pc = "done"
    /\ ex[c].result.success
    /\ Len(sheet) <= MaxSheetRows
    /\ ex' = [ex EXCEPT ![c] =
            Enter([IdleExport EXCEPT !.headers = ex[c].headers,
                                     !.data = ex[c].data,
                                     !.sheet0 = sheet,
                                     !.repeat = TRUE,
                                     !.prevFailed = ex[c].failed # <<>>])]
    /\ UNCHANGED <<env, sheet, home, analysis, store, sheetAnalysis, speech>>

\* where a failed call stopped: at the header write or at the append that
\* follow a clear of the sheet ("clear, updateHeaders", "clear, append"), or
\* anywhere else ("other")
FailedAt(e) ==
    LET cleared == /\ \E i \in 1..Len(e.ops) : e.ops[i] = "clear"
                   /\ \A i \in 1..Len(e.failed) : e.failed[i].op # "clear"
        last == e.ops[Len(e.ops)]
    IN  IF cleared /\ e.failed # <<>> /\ last = "updateHeaders" THEN "clear, updateHeaders"
        ELSE IF cleared /\ e.failed # <<>> /\ last = "append" THEN "clear, append"
        ELSE "other"

\* the caller repeats the call it has just seen fail, with the same input
exportRetry(c) ==
    /\ ex[c].pc = "done"
    /\ ~ex[c].result.success
    /\ Len(sheet) <= MaxSheetRows
    /\ ex' = [ex EXCEPT ![c] =
            Enter([IdleExport EXCEPT !.headers = ex[c].headers,
                                     !.data = ex[c].data,
                                     !.sheet0 = sheet,
                                     !.retryOf = FailedAt(ex[c])])]
    /\ UNCHANGED <<env, sheet, home, analysis, store, sheetAnalysis, speech>>

\* the caller has consumed the result; the invocation's locals are gone
Return(c) ==
    /\ ex[c].pc = "done"
    /\ ex' = [ex EXCEPT ![c] = IdleExport]
    /\ UNCHANGED <<env, sheet, home, analysis, store, sheetAnalysis, speech>>

\* lines 111-133: await auth.getClient()
Authenticate(c) ==
    /\ ex[c].pc = "auth"
    /\ \/ ex' = [ex EXCEPT ![c] = [Issued(@, "auth") EXCEPT !.pc = "getHeaders"]]
       \/ \E msg \in {"Failed to authenticate with Google. Check service account credentials.",
                      "Authentication failed. Potential issue with GOOGLE_PRIVATE_KEY format"} :
             ex' = [ex EXCEPT ![c] = Failure(EnvFailed(@, "auth", "other"), msg)]
    /\ UNCHANGED <<env, sheet, home, analysis, store, sheetAnalysis, speech>>

\* lines 176-233: header comparison and the choice of the next remote call
AfterHeaderProbe(e0) ==
    LET e == [e0 EXCEPT !.performOverwrite =
                 performOverwrite(e0.sheetExistsAndHasHeaders, e0.existingHeaders, e0.headers)]
    IN  IF e.performOverwrite THEN [e EXCEPT !.pc = "clear"]
        ELSE IF ~e.sheetExistsAndHasHeaders
        THEN IF Len(e.headers) > 0 THEN [e EXCEPT !.pc = "updateHeaders"]
             ELSE Commit([e EXCEPT !.rowsToAppend = e.data])
        ELSE [e EXCEPT !.pc = "getDates"]

\* lines 157-174: the catch of the header probe
GetHeadersError(e, kind) ==
    IF kind = "400 Unable to parse range" THEN AfterHeaderProbe(e)
    ELSE IF kind = "403" THEN Failure(e, "Permission denied reading headers from sheet")
    ELSE IF kind = "404" THEN Failure(e, "Spreadsheet not found")
    ELSE Failure(e, "Error reading from sheet (auth related or other)")

\* lines 144-156: await values.get A1:ZZ1
GetHeaders(c) ==
    /\ ex[c].pc = "getHeaders"
    /\ \/ \E existing \in {TrimAll(SheetFirstRow(sheet))} :
          \E e \in {[Issued(ex[c], "getHeaders") EXCEPT
                        !.existingHeaders = existing,
                        !.sheetExistsAndHasHeaders = Len(existing) > 0]} :
             ex' = [ex EXCEPT ![c] = AfterHeaderProbe(e)]
       \/ \E kind \in FailKinds :
             ex' = [ex EXCEPT ![c] = GetHeadersError(EnvFailed(@, "getHeaders", kind), kind)]
    /\ UNCHANGED <<env, sheet, home, analysis, store, sheetAnalysis, speech>>

ClearErrorRetry(e) == [e EXCEPT !.pc = "clear"]

\* lines 204-207: the catch of the clear
ClearError(e) == Failure(e, "Failed to clear sheet for format update")

\* lines 196-212: await values.clear
ClearSheet(c) ==
    /\ ex[c].pc = "clear"
    /\ \/ /\ sheet' = SheetClear(sheet)
          /\ ex' = [ex EXCEPT ![c] =
                  LET e == [Issued(@, "clear") EXCEPT !.sheetExistsAndHasHeaders = FALSE]
                  IN  IF Len(e.headers) > 0 THEN [e EXCEPT !.pc = "updateHeaders"]
                      ELSE Commit([e EXCEPT !.rowsToAppend = e.data])]
       \/ /\ ex' = [ex EXCEPT ![c] = ClearError(EnvFailed(@, "clear", "other"))]
          /\ sheet' = sheet
    /\ UNCHANGED <<env, home, analysis, store, sheetAnalysis, speech>>

\* lines 224-230: the catch of the header write
UpdateHeadersError(e, kind) ==
    IF kind = "403" THEN Failure(e, "Permission denied writing headers to Google Sheet")
    ELSE Failure(e, "Failed to write headers")

UpdateHeadersThenIndex(c) ==
    /\ ex[c].pc = "updateHeaders"
    /\ \/ /\ sheet' = SheetUpdateA1(sheet, ex[c].headers)
          /\ ex' = [ex EXCEPT ![c] =
                  [Issued(@, "updateHeaders") EXCEPT
                      !.sheetExistsAndHasHeaders = TRUE,
                      !.pc = "getDates"]]
       \/ /\ \E kind \in FailKinds :
                ex' = [ex EXCEPT ![c] = UpdateHeadersError(EnvFailed(@, "updateHeaders", kind), kind)]
          /\ sheet' = sheet
    /\ UNCHANGED <<env, home, analysis, store, sheetAnalysis, speech>>

UpdateHeadersNoQueue(c) ==
    /\ ex[c].pc = "updateHeaders"
    /\ \/ /\ sheet' = SheetUpdateA1(sheet, ex[c].headers)
          /\ ex' = [ex EXCEPT ![c] =
                  Commit([Issued(@, "updateHeaders") EXCEPT !.sheetExistsAndHasHeaders = TRUE])]
       \/ /\ \E kind \in FailKinds :
                ex' = [ex EXCEPT ![c] = UpdateHeadersError(EnvFailed(@, "updateHeaders", kind), kind)]
          /\ sheet' = sheet
    /\ UNCHANGED <<env, home, analysis, store, sheetAnalysis, speech>>

\* lines 213-232: await values.update A1, then every input row is queued for append
UpdateHeaders(c) ==
    /\ ex[c].pc = "updateHeaders"
    /\ \/ /\ sheet' = SheetUpdateA1(sheet, ex[c].headers)
          /\ ex' = [ex EXCEPT ![c] =
                  Commit([Issued(@, "updateHeaders") EXCEPT
                      !.sheetExistsAndHasHeaders = TRUE,
                      !.rowsToAppend = @ \o ex[c].data])]
       \/ /\ \E kind \in FailKinds :
                ex' = [ex EXCEPT ![c] = UpdateHeadersError(EnvFailed(@, "updateHeaders", kind), kind)]
          /\ sheet' = sheet
    /\ UNCHANGED <<env, home, analysis, store, sheetAnalysis, speech>>

\* lines 298-317: dispatch of the input rows against the date index
Dispatch(e, map) ==
    Commit([e EXCEPT !.rowsToUpdate = rowsToUpdateOf(e.data, map, e.headers),
                     !.rowsToAppend = rowsToAppendOf(e.data, map)])

GetDatesErrorContinue(e, kind) == Dispatch(e, <<>>)

\* lines 285-296: the catch of the date-column read
GetDatesError(e, kind) ==
    IF kind = "400 Unable to parse range" THEN Dispatch(e, <<>>)
    ELSE IF kind = "403" THEN Failure(e, "Permission denied reading date values from sheet")
    ELSE Failure(e, "Failed to read existing date values")

\* lines 239-284: await values.get A2:A
GetDates(c) ==
    /\ ex[c].pc = "getDates"
    /\ \/ ex' = [ex EXCEPT ![c] =
                Dispatch(Issued(@, "getDates"), existingDatesMap(SheetDateColumn(sheet)))]
       \/ \E kind \in FailKinds :
             ex' = [ex EXCEPT ![c] = GetDatesError(EnvFailed(@, "getDates", kind), kind)]
    /\ UNCHANGED <<env, sheet, home, analysis, store, sheetAnalysis, speech>>

BatchUpdateErrorContinue(e) ==
    IF Len(e.rowsToAppend) > 0 THEN [e EXCEPT !.pc = "append"]
    ELSE Failure(e, "Failed to update rows")

\* lines 332-335: the catch of the batch update
BatchUpdateError(e) == Failure(e, "Failed to update rows")

\* lines 319-336: await values.batchUpdate; the remote rejects the whole
\* request when one of its ranges cannot be resolved
BatchUpdate(c) ==
    /\ ex[c].pc = "batchUpdate"
    /\ \/ /\ \A i \in 1..Len(ex[c].rowsToUpdate) : RangeValid(ex[c].rowsToUpdate[i])
          /\ sheet' = SheetBatchUpdate(sheet, ex[c].rowsToUpdate)
          /\ ex' = [ex EXCEPT ![c] =
                  LET e == [Issued(@, "batchUpdate") EXCEPT
                               !.rowsUpdatedCount = Len(ex[c].rowsToUpdate)]
                  IN  IF Len(e.rowsToAppend) > 0 THEN [e EXCEPT !.pc = "append"]
                      ELSE Success(e)]
       \/ /\ \E i \in 1..Len(ex[c].rowsToUpdate) : ~RangeValid(ex[c].rowsToUpdate[i])
          /\ ex' = [ex EXCEPT ![c] = BatchUpdateError(Issued(@, "batchUpdate"))]
          /\ sheet' = sheet
       \/ /\ ex' = [ex EXCEPT ![c] = BatchUpdateError(EnvFailed(@, "batchUpdate", "other"))]
          /\ sheet' = sheet
    /\ UNCHANGED <<env, home, analysis, store, sheetAnalysis, speech>>

AppendErrorMessageOnly(e, kind) ==
    IF kind = "403" THEN Failure(e, "Permission denied appending data to Google Sheet")
    ELSE Failure(e, NoText)

\* lines 352-359: the catch of the append
AppendError(e, kind) ==
    IF kind = "403" THEN Failure(e, "Permission denied appending data to Google Sheet")
    ELSE Failure(e, "Failed to append new data")

AppendRowsIfAbsent(c) ==
    /\ ex[c].pc = "append"
    /\ \/ /\ sheet' = SheetAppend(sheet,
                    FilterSeq(ex[c].rowsToAppend,
                              {r[1] : r \in {ex[c].rowsToAppend[i] : i \in 1..Len(ex[c].rowsToAppend)}}
                                  \ {sheet[i][1] : i \in 2..Len(sheet)}))
          /\ ex' = [ex EXCEPT ![c] =
                  Success([Issued(@, "append") EXCEPT
                      !.rowsAppendedCount = Len(ex[c].rowsToAppend)])]
       \/ /\ \E kind \in FailKinds :
                ex' = [ex EXCEPT ![c] = AppendError(EnvFailed(@, "append", kind), kind)]
          /\ sheet' = sheet
    /\ UNCHANGED <<env, home, analysis, store, sheetAnalysis, speech>>

\* lines 338-351 and 362-380: await values.append, then the summary
AppendRows(c) ==
    /\ ex[c].pc = "append"
    /\ \/ /\ sheet' = SheetAppend(sheet, ex[c].rowsToAppend)
          /\ ex' = [ex EXCEPT ![c] =
                  Success([Issued(@, "append") EXCEPT
                      !.rowsAppendedCount = Len(ex[c].rowsToAppend)])]
       \/ /\ \E kind \in FailKinds :
                ex' = [ex EXCEPT ![c] = AppendError(EnvFailed(@, "append", kind), kind)]
          /\ sheet' = sheet
    /\ UNCHANGED <<env, home, analysis, store, sheetAnalysis, speech>>

Step(c) ==
    \/ exportAgain(c)
    \/ Return(c)
    \/ Authenticate(c)
    \/ GetHeaders(c)
    \/ ClearSheet(c)
    \/ UpdateHeaders(c)
    \/ GetDates(c)
    \/ BatchUpdate(c)
    \/ AppendRows(c)

\* exports of any request the action accepts, one at a time
Next ==
    \E c \in Clients :
        \/ \E input \in ExportInputs : exportToGoogleSheets(c, input)
        \/ Step(c)

Spec == Init /\ [][Next]_vars

\* the exports the client component issues: requests of one row
NextSingle ==
    \E c \in Clients :
        \/ \E input \in SingleEntryInputs : exportToGoogleSheets(c, input)
        \/ Step(c)

SpecSingle == Init /\ [][NextSingle]_vars

\* the same exports, where a failed export may be repeated with the same input
NextRetry ==
    \E c \in Clients :
        \/ \E input \in SingleEntryInputs : exportToGoogleSheets(c, input)
        \/ exportRetry(c)
        \/ Return(c)
        \/ Authenticate(c)
        \/ GetHeaders(c)
        \/ ClearSheet(c)
        \/ UpdateHeaders(c)
        \/ GetDates(c)
        \/ BatchUpdate(c)
        \/ AppendRows(c)

SpecRetry == Init /\ [][NextRetry]_vars

\* the requests the client component sends: its own header, one row
ComponentInputs == {inp \in SingleEntryInputs : inp.headers = SHEET_HEADERS}

\* two invocations of the server action, started independently of each other
\* (two browser tabs, two devices) against the same sheet
InitRace ==
    /\ env \in Envs
    /\ sheet = <<>>
    /\ ex = [k \in Invocations |-> IdleExport]
    /\ home = HomeInit
    /\ analysis = AnalysisInit
    /\ store = StoreInit
    /\ sheetAnalysis = IdleAnalysis
    /\ speech = SpeechInit

\* the sheet starts empty and every invocation sends SHEET_HEADERS, so the
\* header found is never another layout and values.clear is never issued
NextRace ==
    \E k \in Invocations :
        \/ \E input \in ComponentInputs : exportToGoogleSheets(k, input)
        \/ Return(k)
        \/ Authenticate(k)
        \/ GetHeaders(k)
        \/ UpdateHeaders(k)
        \/ GetDates(k)
        \/ BatchUpdate(k)
        \/ AppendRows(k)

SpecRace == InitRace /\ [][NextRace]_vars

TypeOK ==
    /\ env \in Envs
    /\ \A c \in Clients :
          ex[c].pc \in {"idle", "auth", "getHeaders", "clear", "updateHeaders",
                        "getDates", "batchUpdate", "append", "done"}

(***************************************************************************)
(* Vocabulary of the properties                                            *)
(***************************************************************************)
OpsOf(e) == {e.ops[i] : i \in 1..Len(e.ops)}

\* the environment failed no remote call of this invocation
FailureFree(e) == e.failed = <<>>

FailedKind(e, op, kind) == \E i \in 1..Len(e.failed) : e.failed[i] = [op |-> op, kind |-> kind]

FailedOp(e, op) == \E i \in 1..Len(e.failed) : e.failed[i].op = op

DatesOf(data) == {data[i][1] : i \in 1..Len(data)}

AppendErrors ==
    {"Permission denied appending data to Google Sheet", "Failed to append new data"}

ConfigErrors ==
    {"Server configuration error: Missing or invalid environment variables",
     "Invalid GOOGLE_PRIVATE_KEY format in .env.local"}

\* a credential is missing, or the private key does not have the PEM frame
BadEnv ==
    \/ ~env.SPREADSHEET_ID
    \/ ~env.GOOGLE_SERVICE_ACCOUNT_EMAIL
    \/ env.RAW_GOOGLE_PRIVATE_KEY \in {KeyMissing, KeyNoTrailingNewline, KeyNoBegin}

(***************************************************************************)
(* C1                                                                      *)
(***************************************************************************)
\* C1: starting from an empty sheet, after any sequence of non-overlapping
\* single-entry exports, with any remote call failing at any step, no two
\* data rows of the sheet carry the same date.  (Checked under SpecSingle.)
C1_AtMostOneRowPerDate ==
    \A i, j \in 2..Len(sheet) : i # j => sheet[i][1] # sheet[j][1]

C3_SecondCallReportsNoChange ==
    \A c \in Clients :
        LET e == ex[c]
        IN  (/\ e.pc = "done" /\ e.repeat /\ ~e.prevFailed /\ FailureFree(e)
             /\ Len(e.data) = 1)
            => \/ /\ e.result.success
                  /\ e.result.rowsAppended = 0
                  /\ e.result.rowsUpdated = 0
               \/ e.result.message.text = "Dane z aplikacji sa juz aktualne w arkuszu."

\* C3 amended: the second of two identical failure-free exports of one entry
\* queues nothing for append and queues the entry as one update of its row;
\* when it succeeds it returns rowsAppended = 0 and rowsUpdated = 1 with the
\* '1 row updated' summary, never the 'already up to date' message.
C3_SecondCallReportsOneUpdate ==
    \A c \in Clients :
        LET e == ex[c]
        IN  (/\ e.pc = "done" /\ e.repeat /\ ~e.prevFailed /\ FailureFree(e)
             /\ Len(e.data) = 1)
            => /\ e.rowsToAppend = <<>>
               /\ Len(e.rowsToUpdate) = 1
               /\ e.rowsToUpdate[1].values = <<e.data[1]>>
               /\ "batchUpdate" \in OpsOf(e)
               /\ "append" \notin OpsOf(e)
               /\ e.result.message.text # "Dane z aplikacji sa juz aktualne w arkuszu."
               /\ e.result.success =>
                     /\ e.result.rowsAppended = 0
                     /\ e.result.rowsUpdated = 1
                     /\ e.result.message =
                           [overwritePrefix |-> FALSE, updated |-> 1, appended |-> 0,
                            text |-> "N wiersz(y) zaktualizowano, M wiersz(y) dodano."]

\* a repeated one-entry export has returned success with one row updated
C3_Witness ==
    \E c \in Clients :
        LET e == ex[c]
        IN  /\ e.pc = "done" /\ e.repeat /\ ~e.prevFailed /\ FailureFree(e)
            /\ Len(e.data) = 1
            /\ e.result.success
            /\ e.result.rowsUpdated = 1
            /\ e.result.rowsAppended = 0

(***************************************************************************)
(* C4                                                                      *)
(***************************************************************************)
\* the outcome C4 describes: clear, header write and append were issued, no
\* update, and the sheet is the new header followed by the exported rows
MigratedTo(e) ==
    /\ {"clear", "updateHeaders", "append"} \subseteq OpsOf(e)
    /\ "batchUpdate" \notin OpsOf(e)
    /\ e.rowsToUpdate = <<>>
    /\ sheet = <<e.headers>> \o e.data

\* C4 as stated: when the sheet's first row differs from the expected header
\* in any cell or in length, a failure-free export clears the sheet, writes
\* the header and appends the exported row, leaving header plus that row.
C4_AnyDifferenceMigrates ==
    \A c \in Clients :
        LET e == ex[c]
        IN  (/\ e.pc = "done" /\ FailureFree(e) /\ Len(e.data) >= 1
             /\ e.sheet0 # <<>>
             /\ e.sheet0[1] # e.headers)
            => MigratedTo(e)

\* C4 amended: when the sheet's first row, trimmed cell by cell, differs from
\* the trimmed expected header in any cell or in length, a failure-free
\* export clears the sheet, writes the header and appends the exported row,
\* leaving exactly the header plus that row.
C4_TrimmedDifferenceMigrates ==
    \A c \in Clients :
        LET e == ex[c]
        IN  (/\ e.pc = "done" /\ FailureFree(e) /\ Len(e.data) >= 1
             /\ e.sheet0 # <<>>
             /\ TrimAll(e.sheet0[1]) # TrimAll(e.headers))
            => MigratedTo(e)

\* a failure-free export has replaced a sheet of another column count, which
\* held data rows, by the new header and the exported row
C4_Witness ==
    \E c \in Clients :
        LET e == ex[c]
        IN  /\ e.pc = "done" /\ FailureFree(e) /\ Len(e.data) = 1
            /\ Len(e.sheet0) >= 3
            /\ Len(e.sheet0[1]) # Len(e.headers)
            /\ MigratedTo(e)
            /\ e.result.success

(***************************************************************************)
(* C5                                                                      *)
(***************************************************************************)
\* C5: every queued update targets the single sheet row that holds the
\* exported date, from column A through the last header column.
C5_UpdateSpansHeaderColumns ==
    \A c \in Clients :
        LET e == ex[c]
        IN  \A i \in 1..Len(e.rowsToUpdate) :
                LET u == e.rowsToUpdate[i]
                IN  /\ u.range.startCharCode = 65
                    /\ u.range.startRow = u.range.endRow
                    /\ ColumnOfCharCode(u.range.endCharCode) = Len(e.headers)
                    /\ e.pc = "batchUpdate" =>
                          /\ u.range.startRow \in 2..Len(sheet)
                          /\ sheet[u.range.startRow][1] = u.values[1][1]

(***************************************************************************)
(* C6                                                                      *)
(***************************************************************************)
BothQueued(e) == Len(e.rowsToUpdate) > 0 /\ Len(e.rowsToAppend) > 0

\* C6 as stated: with rows to update and rows to append, the two commit
\* operations are independent, so the append is carried out whatever the
\* outcome of the update (which is how an export could end with the append
\* committed and the update failed).
C6_CommitHalvesIndependent ==
    \A c \in Clients :
        LET e == ex[c]
        IN  (e.pc = "done" /\ BothQueued(e)) => "append" \in OpsOf(e)

\* C6 amended: with rows to update and rows to append, the update is
\* committed first and the append is issued only after the update succeeded.
\* The export ends in one of three ways: the update failed, 'Failed to update
\* rows' is returned, the append was never issued and the sheet is untouched;
\* or the update is committed and the append failed, the append's own message
\* is returned and the update is not rolled back; or both are committed.
C6_UpdateThenAppend ==
    \A c \in Clients :
        LET e == ex[c]
            updated == SheetBatchUpdate(e.sheet0, e.rowsToUpdate)
        IN  (e.pc = "done" /\ BothQueued(e)) =>
               \/ /\ ~e.result.success
                  /\ e.result.error = "Failed to update rows"
                  /\ "append" \notin OpsOf(e)
                  /\ sheet = e.sheet0
               \/ /\ ~e.result.success
                  /\ e.result.error \in AppendErrors
                  /\ FailedOp(e, "append")
                  /\ ~FailedOp(e, "batchUpdate")
                  /\ sheet = updated
               \/ /\ e.result.success
                  /\ sheet = SheetAppend(updated, e.rowsToAppend)

\* an export ended with its update committed, visible in the sheet, and its
\* append failed
C6_Witness ==
    \E c \in Clients :
        LET e == ex[c]
        IN  /\ e.pc = "done" /\ BothQueued(e)
            /\ ~e.result.success
            /\ e.result.error = "Failed to append new data"
            /\ sheet # e.sheet0
            /\ sheet = SheetBatchUpdate(e.sheet0, e.rowsToUpdate)

(***************************************************************************)
(* C7                                                                      *)
(***************************************************************************)
\* the header probe returned a first row that equals the expected header,
\* both trimmed cell by cell, in every cell and in length
ProbeFoundCompatible(e) ==
    /\ "getHeaders" \in OpsOf(e)
    /\ ~FailedOp(e, "getHeaders")
    /\ e.sheet0 # <<>>
    /\ TrimAll(e.sheet0[1]) = TrimAll(e.headers)

ProbeFoundNoHeaderRow(e) ==
    /\ "getHeaders" \in OpsOf(e)
    /\ \/ ~FailedOp(e, "getHeaders") /\ e.sheet0 = <<>>
       \/ FailedKind(e, "getHeaders", "400 Unable to parse range")

\* C8: when the header probe finds no first row, the header write is the
\* next remote call, and no clear is issued in the whole invocation.
C8_NoHeaderRowWritesHeaderWithoutClear ==
    \A c \in Clients :
        LET e == ex[c]
        IN  ProbeFoundNoHeaderRow(e) =>
               /\ "clear" \notin OpsOf(e)
               /\ e.pc # "clear"
               /\ e.pc = "updateHeaders" \/ "updateHeaders" \in OpsOf(e)

\* an export whose probe failed with 'Unable to parse range' on a sheet that
\* has rows has written the header and finished without a clear
C8_Witness ==
    \E c \in Clients :
        LET e == ex[c]
        IN  /\ e.pc = "done" /\ ProbeFoundNoHeaderRow(e)
            /\ FailedOp(e, "getHeaders")
            /\ Len(e.sheet0) >= 2
            /\ e.result.success
            /\ sheet[1] = Overlay(e.sheet0[1], e.headers)

(***************************************************************************)
(* C9                                                                      *)
(***************************************************************************)
\* C9: the remote calls of one invocation are issued in the order
\* authentication, header probe, clear, header write, date-column read,
\* batch update, append; each at most once, so a failed call is not retried.
C9_RemoteCallsInOrderAtMostOnce ==
    \A c \in Clients :
        LET e == ex[c]
        IN  \A i, j \in 1..Len(e.ops) : i < j => OpRank(e.ops[i]) < OpRank(e.ops[j])

\* an invocation has authenticated, probed the header, failed at its clear
\* and ended there: the clear was issued once and nothing after it
C9_Witness ==
    \E c \in Clients :
        LET e == ex[c]
        IN  /\ e.pc = "done"
            /\ e.ops = <<"auth", "getHeaders", "clear">>
            /\ FailedOp(e, "clear")

(***************************************************************************)
(* C10                                                                     *)
(***************************************************************************)
\* C10: when a credential is missing or the private key is malformed, a call
\* returns a configuration failure at once: no authentication, no remote
\* call, and the sheet is never changed.
C10_ConfigurationErrorFailsFast ==
    BadEnv =>
        /\ sheet = <<>>
        /\ \A c \in Clients :
              LET e == ex[c]
              IN  /\ e.pc \in {"idle", "done"}
                  /\ e.ops = <<>>
                  /\ e.pc = "done" =>
                        /\ ~e.result.success
                        /\ e.result.error \in ConfigErrors
                        /\ e.result.rowsAppended = NoCount
                        /\ e.result.rowsUpdated = NoCount

\* a call made with a private key that lacks the final newline has returned
\* the key-format failure
C10_Witness ==
    \E c \in Clients :
        LET e == ex[c]
        IN  /\ env.RAW_GOOGLE_PRIVATE_KEY = KeyNoTrailingNewline
            /\ e.pc = "done"
            /\ Len(e.data) = 1
            /\ e.result.error = "Invalid GOOGLE_PRIVATE_KEY format in .env.local"

(***************************************************************************)
(* C11                                                                     *)
(***************************************************************************)
\* the result of a successful call: both counts are numbers, there is a
\* summary message and no error
SuccessOutcome(r) ==
    /\ r.success
    /\ r.rowsAppended \in Nat
    /\ r.rowsUpdated \in Nat
    /\ r.message # NoMessage
    /\ r.message.text # NoText
    /\ r.error = NoText

\* the result of a failed call: one non-empty error text, no counts, no message
FailureOutcome(r) ==
    /\ ~r.success
    /\ r.error # NoText
    /\ r.rowsAppended = NoCount
    /\ r.rowsUpdated = NoCount
    /\ r.message = NoMessage

\* C11: every export invocation that has returned holds exactly one of two
\* results: success with numeric rowsAppended and rowsUpdated and a summary
\* message (zero/zero included), or failure with one non-empty error message
\* and no counts.
C11_ExactlyOneOutcome ==
    \A c \in Clients :
        ex[c].pc = "done" =>
            /\ SuccessOutcome(ex[c].result) \/ FailureOutcome(ex[c].result)
            /\ ~(SuccessOutcome(ex[c].result) /\ FailureOutcome(ex[c].result))

\* a call has returned success with zero rows appended and zero rows updated,
\* after it issued remote calls
C11_Witness ==
    \E c \in Clients :
        /\ ex[c].pc = "done"
        /\ ex[c].ops # <<>>
        /\ SuccessOutcome(ex[c].result)
        /\ ex[c].result.rowsAppended = 0
        /\ ex[c].result.rowsUpdated = 0

(***************************************************************************)
(* C12                                                                     *)
(***************************************************************************)
\* the call cleared the sheet and then failed at the header write or at the append
ClearedThenFailed(e) ==
    /\ \E i \in 1..Len(e.ops) : e.ops[i] = "clear"
    /\ \A i \in 1..Len(e.failed) : e.failed[i].op # "clear"
    /\ \E i \in 1..Len(e.failed) : e.failed[i].op \in {"updateHeaders", "append"}

\* C12: an export of one entry whose migration is interrupted after the
\* clear (the header write fails, or the header is written and the append
\* fails) returns a failure and leaves the sheet empty or holding the header
\* only; when the same export is then repeated and no remote call of the
\* repetition fails, it succeeds and the sheet holds exactly the header and
\* the entry's row.
C12_InterruptedMigrationRecovers ==
    \A c \in Clients :
        LET e == ex[c]
        IN  /\ ClearedThenFailed(e) =>
                  /\ e.pc = "done"
                  /\ FailureOutcome(e.result)
                  /\ sheet \in {<<>>, <<e.headers>>}
            /\ (/\ e.retryOf \in {"clear, updateHeaders", "clear, append"}
                /\ e.pc = "done"
                /\ FailureFree(e)) =>
                  /\ e.result.success
                  /\ sheet = <<e.headers, e.data[1]>>

\* the migration wrote the header and failed at the append; the repeated
\* export has succeeded
C12_Witness ==
    \E c \in Clients :
        LET e == ex[c]
        IN  /\ e.retryOf = "clear, append"
            /\ e.pc = "done"
            /\ FailureFree(e)
            /\ e.result.success
            /\ e.sheet0 = <<e.headers>>
            /\ sheet = <<e.headers, e.data[1]>>

(***************************************************************************)
(* C13                                                                     *)
(***************************************************************************)
\* the invocation exports one entry, has read the date column without
\* finding the entry's date, and has returned success with no call failed
AppendedAfterMiss(e) ==
    /\ e.pc = "done"
    /\ e.result.success
    /\ FailureFree(e)
    /\ Len(e.data) = 1
    /\ "getDates" \in OpsOf(e)
    /\ e.rowsToUpdate = <<>>

\* the data rows of the sheet that carry the date cell d
RowsOfDate(d) == {i \in 2..Len(sheet) : sheet[i] # <<>> /\ sheet[i][1] = d}

\* C13: when two invocations export an entry of the same date, and each has
\* read the date column before the other appended (so neither found the
\* date), both append: the sheet then holds two data rows for that date.
C13_OverlappingExportsDuplicate ==
    \A k1, k2 \in Invocations :
        (/\ k1 # k2
         /\ AppendedAfterMiss(ex[k1])
         /\ AppendedAfterMiss(ex[k2])
         /\ ex[k1].data[1][1] = ex[k2].data[1][1]) =>
            /\ ex[k1].result.rowsAppended = 1
            /\ ex[k2].result.rowsAppended = 1
            /\ Cardinality(RowsOfDate(ex[k1].data[1][1])) = 2

\* both invocations started on a sheet that held the header only, both
\* missed the date, both appended: rows 2 and 3 carry the same date
C13_Witness ==
    \E k1, k2 \in Invocations :
        /\ k1 # k2
        /\ AppendedAfterMiss(ex[k1])
        /\ AppendedAfterMiss(ex[k2])
        /\ ex[k1].data[1][1] = ex[k2].data[1][1]
        /\ Len(ex[k1].sheet0) = 1
        /\ Len(ex[k2].sheet0) = 1
        /\ Len(sheet) = 3
        /\ RowsOfDate(ex[k1].data[1][1]) = {2, 3}

(***************************************************************************)
(* Home: the page component                                                *)
(***************************************************************************)
\* neither the loading screen nor the placeholder: the page shows the date
\* picker, the form and MoodAnalysis (lines 120-184)
FullPage(h) == h.isClient /\ ~h.isLoadingEntry /\ HasEntry(h.dailyEntry)

\* MoodAnalysis leaves the page: the state of the instance is gone, the
\* handlers of that instance that await a server action go on
Unmounted(a) ==
    [mounted |-> FALSE,
     state |-> MoodAnalysisState,
     exportHandler |->
        [k \in Invocations |-> IF a.exportHandler[k] = "none" THEN "none" ELSE "unmounted"],
     analyzeHandler |->
        [k \in Invocations |-> IF a.analyzeHandler[k] = "none" THEN "none" ELSE "unmounted"],
     exports |-> a.exports]

\* MoodAnalysis after Home has rendered in state h: <MoodAnalysis/> is part
\* of the full page only (line 258)
Rendered(h, a) ==
    IF FullPage(h)
    THEN IF a.mounted THEN a ELSE [a EXCEPT !.mounted = TRUE, !.state = MoodAnalysisState]
    ELSE IF a.mounted THEN Unmounted(a) ELSE a

saveEffectWhileLoading(h, saved) ==
    IF HasEntry(h.dailyEntry) /\ h.isClient /\ h.dailyEntry.date = h.selectedDate
          /\ h.isLoadingEntry
    THEN [saved EXCEPT ![h.dailyEntry.date] = h.dailyEntry]
    ELSE saved

\* lines 75-81: the effect on [dailyEntry, isClient, selectedDate,
\* isLoadingEntry], run after a render in state h: saveDailyEntry(dailyEntry)
\* puts the entry in the store under its date
saveEffect(h, saved) ==
    IF HasEntry(h.dailyEntry) /\ h.isClient /\ h.dailyEntry.date = h.selectedDate
          /\ ~h.isLoadingEntry
    THEN [saved EXCEPT ![h.dailyEntry.date] = h.dailyEntry]
    ELSE saved

\* lines 48-62: the effects after the first render; the entry of the
\* selected date is requested
HomeMounted ==
    /\ ~home.isClient
    /\ home' = [home EXCEPT !.isClient = TRUE,
                            !.isLoadingEntry = TRUE,
                            !.loads = @ \cup {home.selectedDate}]
    /\ analysis' = Rendered(home', analysis)
    /\ store' = saveEffect(home', store)
    /\ UNCHANGED <<env, sheet, ex, sheetAnalysis, speech>>

handleDateChangeNoLoader(date) ==
    /\ FullPage(home)
    /\ date # home.selectedDate
    /\ home' = [home EXCEPT !.selectedDate = date,
                            !.loads = @ \cup {date}]
    /\ analysis' = Rendered(home', analysis)
    /\ store' = saveEffect(home', store)
    /\ UNCHANGED <<env, sheet, ex, sheetAnalysis, speech>>

\* lines 114-118 and 52-62: a date picked in the date picker is selected
\* and its entry requested
handleDateChange(date) ==
    /\ FullPage(home)
    /\ date # home.selectedDate
    /\ home' = [home EXCEPT !.selectedDate = date,
                            !.isLoadingEntry = TRUE,
                            !.loads = @ \cup {date}]
    /\ analysis' = Rendered(home', analysis)
    /\ store' = saveEffect(home', store)
    /\ UNCHANGED <<env, sheet, ex, sheetAnalysis, speech>>

\* lines 63-66: getDailyEntry(date) has resolved with an entry
getDailyEntryResolved(date, entry) ==
    /\ date \in home.loads
    /\ home' = [home EXCEPT !.loads = @ \ {date},
                            !.dailyEntry = entry,
                            !.calculatedMood = calculateMoodFromOverallScores(entry.scores),
                            !.isLoadingEntry = FALSE]
    /\ analysis' = Rendered(home', analysis)
    /\ store' = saveEffect(home', store)
    /\ UNCHANGED <<env, sheet, ex, sheetAnalysis, speech>>

\* lines 67-71: getDailyEntry(date) has been rejected
getDailyEntryRejected(date) ==
    /\ date \in home.loads
    /\ home' = [home EXCEPT !.loads = @ \ {date},
                            !.dailyEntry = NoEntry,
                            !.isLoadingEntry = FALSE]
    /\ analysis' = Rendered(home', analysis)
    /\ store' = saveEffect(home', store)
    /\ UNCHANGED <<env, sheet, ex, sheetAnalysis, speech>>

handleQuestionScoreChangeStale(theme, questionIndex, value) ==
    /\ FullPage(home)
    /\ home.edits < MaxEdits
    /\ LET prevEntry == home.dailyEntry
           newDetailedScores ==
               [prevEntry.detailedScores EXCEPT ![theme] = Put(@, questionIndex, value)]
           newOverallScores == calculateOverallScores(prevEntry.detailedScores)
       IN  home' = [home EXCEPT
                       !.dailyEntry = [prevEntry EXCEPT !.scores = newOverallScores,
                                                        !.detailedScores = newDetailedScores],
                       !.calculatedMood = calculateMoodFromOverallScores(newOverallScores),
                       !.edits = @ + 1]
    /\ analysis' = Rendered(home', analysis)
    /\ store' = saveEffect(home', store)
    /\ UNCHANGED <<env, sheet, ex, sheetAnalysis, speech>>

handleQuestionScoreChangeKeepMood(theme, questionIndex, value) ==
    /\ FullPage(home)
    /\ home.edits < MaxEdits
    /\ LET prevEntry == home.dailyEntry
           newDetailedScores ==
               [prevEntry.detailedScores EXCEPT ![theme] = Put(@, questionIndex, value)]
           newOverallScores == calculateOverallScores(newDetailedScores)
       IN  home' = [home EXCEPT
                       !.dailyEntry = [prevEntry EXCEPT !.scores = newOverallScores,
                                                        !.detailedScores = newDetailedScores],
                       !.edits = @ + 1]
    /\ analysis' = Rendered(home', analysis)
    /\ store' = saveEffect(home', store)
    /\ UNCHANGED <<env, sheet, ex, sheetAnalysis, speech>>

\* lines 84-102: an answer is chosen in the form of the full page
handleQuestionScoreChange(theme, questionIndex, value) ==
    /\ FullPage(home)
    /\ home.edits < MaxEdits
    /\ LET prevEntry == home.dailyEntry
           newDetailedScores ==
               [prevEntry.detailedScores EXCEPT ![theme] = Put(@, questionIndex, value)]
           newOverallScores == calculateOverallScores(newDetailedScores)
       IN  home' = [home EXCEPT
                       !.dailyEntry = [prevEntry EXCEPT !.scores = newOverallScores,
                                                        !.detailedScores = newDetailedScores],
                       !.calculatedMood = calculateMoodFromOverallScores(newOverallScores),
                       !.edits = @ + 1]
    /\ analysis' = Rendered(home', analysis)
    /\ store' = saveEffect(home', store)
    /\ UNCHANGED <<env, sheet, ex, sheetAnalysis, speech>>

\* what is typed in a notes field
Notes == {"", "spacer"}

\* lines 104-112: the text of one of the two notes fields is changed
handleNotesChange(field, value) ==
    /\ FullPage(home)
    /\ home.edits < MaxEdits
    /\ value # home.dailyEntry[field]
    /\ home' = [home EXCEPT !.dailyEntry = [@ EXCEPT ![field] = value],
                            !.edits = @ + 1]
    /\ analysis' = Rendered(home', analysis)
    /\ store' = saveEffect(home', store)
    /\ UNCHANGED <<env, sheet, ex, sheetAnalysis, speech>>

(***************************************************************************)
(* ThemeQuestionsForm: the radio groups of the questions                   *)
(***************************************************************************)
\* the values of the three radio items of a question
RadioValues == {"-0.25", "0", "0.25"}

\* the values handleValueChange can be called with: those of the radio
\* items and a value no item carries
FormValues == RadioValues \cup {"0.5"}

\* Number.prototype.toString on a question score
toString(score) == IF score = -250 THEN "-0.25" ELSE IF score = 250 THEN "0.25" ELSE "0"

\* parseFloat on the value of a radio item
parseFloat(value) ==
    IF value = "-0.25" THEN -250
    ELSE IF value = "0.25" THEN 250
    ELSE IF value = "0.5" THEN 500
    ELSE 0

\* line 91: value={(currentScore?.toString()) ?? '0'}, the item the radio
\* group of a question shows as selected
RadioGroupValue(currentScore) ==
    IF currentScore = undefined THEN "0" ELSE toString(currentScore)

handleValueChangeUnchecked(themeKey, questionIndex, value) ==
    /\ FullPage(home)
    /\ value # RadioGroupValue(ScoreAt(home.dailyEntry.detailedScores, themeKey, questionIndex))
    /\ handleQuestionScoreChange(themeKey, questionIndex, parseFloat(value))

\* lines 41-46 and 92: an item other than the one shown as selected is
\* picked in the radio group of a question
handleValueChange(themeKey, questionIndex, value) ==
    /\ FullPage(home)
    /\ value # RadioGroupValue(ScoreAt(home.dailyEntry.detailedScores, themeKey, questionIndex))
    /\ parseFloat(value) \in QuestionScores
    /\ handleQuestionScoreChange(themeKey, questionIndex, parseFloat(value))

\* an environment with every credential in place
GoodEnv == CHOOSE e \in Envs :
    missingVars(e) = <<>> /\ isPrivateKeyFormatValid(GOOGLE_PRIVATE_KEY(e))

\* the page alone: it loads a stored entry of the day and its answers are edited
InitScore ==
    /\ env = GoodEnv
    /\ sheet = <<>>
    /\ ex = [c \in Clients |-> IdleExport]
    /\ home = HomeInit
    /\ analysis = AnalysisInit
    /\ store = StoreInit
    /\ sheetAnalysis = IdleAnalysis
    /\ speech = SpeechInit

NextScore ==
    \/ HomeMounted
    \/ \E date \in home.loads : \E entry \in StoredEntries(date) :
          getDailyEntryResolved(date, entry)
    \/ \E theme \in Themes, questionIndex \in QuestionIndexes, value \in FormValues :
          handleValueChange(theme, questionIndex, value)

SpecScore == InitScore /\ [][NextScore]_vars


(***************************************************************************)
(* MoodAnalysis: the component with the Analyze and Export buttons         *)
(***************************************************************************)
\* line 218: disabled={isAnalyzing || isExporting}
AnalyzeDisabled(s) == s.isAnalyzing \/ s.isExporting

\* line 221: disabled={isAnalyzing || isExporting || !currentEntry}
ExportDisabled(s, currentEntry) == s.isAnalyzing \/ s.isExporting \/ ~HasEntry(currentEntry)

\* lines 98-100: the effect after the first render of an instance
MoodAnalysisMounted ==
    /\ analysis.mounted
    /\ ~analysis.state.isClient
    /\ analysis' = [analysis EXCEPT !.state.isClient = TRUE]
    /\ UNCHANGED <<env, sheet, ex, home, store, sheetAnalysis, speech>>

\* a handler that starts runs as k: the first name no running handler bears
FreeName(handlers, k) ==
    /\ handlers[k] = "none"
    /\ k = "second" => handlers["first"] # "none"

\* lines 115-123: a click on an enabled Analyze button, up to the await
handleAnalyzeData(k) ==
    /\ analysis.mounted
    /\ analysis.state.isClient
    /\ ~AnalyzeDisabled(analysis.state)
    /\ FreeName(analysis.analyzeHandler, k)
    /\ analysis' = [analysis EXCEPT !.state.isAnalyzing = TRUE,
                                    !.state.error = NoText,
                                    !.state.exportMessage = NoText,
                                    !.analyzeHandler[k] = "mounted"]
    /\ UNCHANGED <<env, sheet, ex, home, store, sheetAnalysis, speech>>

\* lines 124-145: analyzeSheetData has settled; what the handler sets is
\* kept only when its instance is still on the page
analyzeSheetDataSettled(k, success) ==
    /\ analysis.analyzeHandler[k] # "none"
    /\ analysis' =
          IF analysis.analyzeHandler[k] = "mounted"
          THEN [analysis EXCEPT
                   !.state.error = IF success THEN @
                                   ELSE "Analiza danych z arkusza przez AI nie powiodla sie.",
                   !.state.isAnalyzing = FALSE,
                   !.analyzeHandler[k] = "none"]
          ELSE [analysis EXCEPT !.analyzeHandler[k] = "none"]
    /\ UNCHANGED <<env, sheet, ex, home, store, sheetAnalysis, speech>>

\* lines 148-175: a click on an enabled Export button, up to the await
handleExportData(k) ==
    /\ analysis.mounted
    /\ analysis.state.isClient
    /\ ~ExportDisabled(analysis.state, home.dailyEntry)
    /\ FreeName(analysis.exportHandler, k)
    /\ ex[k].pc = "idle"
    /\ Len(sheet) <= MaxSheetRows
    /\ analysis.exports < MaxExports
    /\ LET currentEntry == home.dailyEntry
           dataRows == prepareDataForSheetExport(currentEntry)
       IN  IF ~HasEntry(currentEntry)
           THEN /\ analysis' = [analysis EXCEPT
                       !.state.error = "Brak danych dla wybranego dnia do wyeksportowania.",
                       !.state.exportMessage = NoText,
                       !.state.isExporting = FALSE]
                /\ ex' = ex
           ELSE IF Len(dataRows) = 0
           THEN /\ analysis' = [analysis EXCEPT
                       !.state.error = "Brak danych do wyeksportowania dla wybranego dnia.",
                       !.state.exportMessage = NoText,
                       !.state.isExporting = FALSE]
                /\ ex' = ex
           ELSE /\ analysis' = [analysis EXCEPT !.state.isExporting = TRUE,
                                                !.state.error = NoText,
                                                !.state.exportMessage = NoText,
                                                !.exportHandler[k] = "mounted",
                                                !.exports = @ + 1]
                /\ ex' = [ex EXCEPT ![k] =
                        Enter([IdleExport EXCEPT !.headers = SHEET_HEADERS,
                                                 !.data = dataRows,
                                                 !.sheet0 = sheet])]
    /\ UNCHANGED <<env, sheet, home, store, sheetAnalysis, speech>>

exportToGoogleSheetsSettledNoFinally(k) ==
    /\ analysis.exportHandler[k] # "none"
    /\ ex[k].pc = "done"
    /\ LET result == ex[k].result
       IN  analysis' =
              IF analysis.exportHandler[k] = "mounted"
              THEN [analysis EXCEPT
                       !.state.exportMessage =
                           IF result.success THEN result.message.text ELSE @,
                       !.state.error = IF result.success THEN @ ELSE result.error,
                       !.state.isExporting = IF result.success THEN FALSE ELSE @,
                       !.exportHandler[k] = "none"]
              ELSE [analysis EXCEPT !.exportHandler[k] = "none"]
    /\ ex' = [ex EXCEPT ![k] = IdleExport]
    /\ UNCHANGED <<env, sheet, home, store, sheetAnalysis, speech>>

\* lines 176-191: exportToGoogleSheets has returned to the handler
exportToGoogleSheetsSettled(k) ==
    /\ analysis.exportHandler[k] # "none"
    /\ ex[k].pc = "done"
    /\ LET result == ex[k].result
       IN  analysis' =
              IF analysis.exportHandler[k] = "mounted"
              THEN [analysis EXCEPT
                       !.state.exportMessage =
                           IF result.success THEN result.message.text ELSE @,
                       !.state.error = IF result.success THEN @ ELSE result.error,
                       !.state.isExporting = FALSE,
                       !.exportHandler[k] = "none"]
              ELSE [analysis EXCEPT !.exportHandler[k] = "none"]
    /\ ex' = [ex EXCEPT ![k] = IdleExport]
    /\ UNCHANGED <<env, sheet, home, store, sheetAnalysis, speech>>

\* the page in the browser: dates are picked, entries load, Analyze and
\* Export are clicked, and the exports started run on the server
InitClient ==
    /\ env = GoodEnv
    /\ sheet = <<>>
    /\ ex = [k \in Invocations |-> IdleExport]
    /\ home = HomeInit
    /\ analysis = AnalysisInit
    /\ store = StoreInit
    /\ sheetAnalysis = IdleAnalysis
    /\ speech = SpeechInit

\* the page sends SHEET_HEADERS to a sheet that starts empty: as in
\* NextRace, values.clear is never issued
NextClient ==
    \/ HomeMounted
    \/ \E date \in Dates : handleDateChange(date)
    \/ \E date \in home.loads : getDailyEntryResolved(date, NewEntry(date))
    \/ \E date \in home.loads : getDailyEntryRejected(date)
    \/ MoodAnalysisMounted
    \/ \E k \in Invocations :
          \/ handleAnalyzeData(k)
          \/ \E success \in BOOLEAN : analyzeSheetDataSettled(k, success)
          \/ handleExportData(k)
          \/ exportToGoogleSheetsSettled(k)
          \/ Authenticate(k)
          \/ GetHeaders(k)
          \/ UpdateHeaders(k)
          \/ GetDates(k)
          \/ BatchUpdate(k)
          \/ AppendRows(k)

SpecClient == InitClient /\ [][NextClient]_vars


(***************************************************************************)
(* C14                                                                     *)
(***************************************************************************)
\* an export or an analysis of this client has been started and has not
\* yet returned to its handler
ExportInFlight(k) == ex[k].pc # "idle"

AnalysisInFlight(k) == analysis.analyzeHandler[k] # "none"

\* C14: within one client an export is started only while no export and no
\* analysis started from the page is in flight, so that at most one export
\* invocation of the client is in flight at any time
C14_BusyFlagsSerialiseExports ==
    [][\A k \in Invocations :
          (~ExportInFlight(k) /\ ex'[k].pc # "idle")
             => \A j \in Invocations : ~ExportInFlight(j) /\ ~AnalysisInFlight(j)]_vars


(***************************************************************************)
(* C15                                                                     *)
(***************************************************************************)
\* the sum of the answered questions of a theme, an unanswered one counting 0
AnsweredSum(entry, themeKey) ==
    LET answers == entry.detailedScores[themeKey]
        Chosen(value) == Cardinality({q \in DOMAIN answers : answers[q] = value})
    IN  250 * Chosen(250) - 250 * Chosen(-250)

\* C15: after any sequence of question-score edits, each of the 7 stored
\* theme scores is the sum of the theme's 8 question scores, an unanswered
\* question counting 0, and lies between -2 and +2
C15_ThemeScoresAreQuestionSums ==
    (FullPage(home) /\ home.edits > 0)
       => \A themeKey \in Themes :
             /\ home.dailyEntry.scores[themeKey] = AnsweredSum(home.dailyEntry, themeKey)
             /\ home.dailyEntry.scores[themeKey] >= -2000
             /\ home.dailyEntry.scores[themeKey] <= 2000

\* an edit has lowered the score of a theme that has an unanswered question
C15_Witness ==
    /\ FullPage(home)
    /\ home.edits > 0
    /\ \E themeKey \in Themes :
          /\ DOMAIN home.dailyEntry.detailedScores[themeKey] # QuestionIndexes
          /\ home.dailyEntry.scores[themeKey] = 1500


(***************************************************************************)
(* C16                                                                     *)
(***************************************************************************)
\* the seven theme scores of the page's entry added up
ScoresTotal ==
    LET s == home.dailyEntry.scores
    IN  s.dreaming + s.moodScore + s.training + s.diet
          + s.socialRelations + s.familyRelations + s.selfEducation

\* the category of an average of seven scores, -0.75 and 0.75 being -3/4
\* and 3/4: the average is at most -3/4 when 4 * total <= -3 * 7
CategoryOfTotal(total) ==
    IF 4 * total <= -3 * 7 * 1000 THEN "Bad"
    ELSE IF 4 * total >= 3 * 7 * 1000 THEN "Good"
    ELSE "Normal"

\* C16: the mood category is Bad when the average of the theme scores is
\* <= -0.75, Good when it is >= 0.75 and Normal otherwise; an average of
\* exactly 0.75 is Good and one of exactly -0.75 is Bad
C16_CategoryByAverageInclusive ==
    FullPage(home) => home.calculatedMood.label = CategoryOfTotal(ScoresTotal)

\* an edit has brought the average to exactly 0.75 and the page shows Good
C16_Witness ==
    /\ FullPage(home)
    /\ home.edits > 0
    /\ 4 * ScoresTotal = 3 * 7 * 1000
    /\ home.calculatedMood.label = "Good"

(***************************************************************************)
(* C17                                                                     *)
(***************************************************************************)
\* C17: the totalScore returned with the category is the sum of the theme
\* scores (to 2 decimals), not their average, while the category is decided
\* from the average: a sum of 0.75 or more with an average below 0.75 is
\* not Good
C17_TotalIsSumCategoryByAverage ==
    FullPage(home) =>
       /\ home.calculatedMood.totalScore = ScoresTotal
       /\ ScoresTotal # 0 => 7 * home.calculatedMood.totalScore # ScoresTotal
       /\ home.calculatedMood.label = "Good" => 4 * ScoresTotal >= 3 * 7 * 1000
       /\ home.calculatedMood.label = "Bad" => 4 * ScoresTotal <= -3 * 7 * 1000

\* after an edit the total shown is 1.75 while the category is Normal
C17_Witness ==
    /\ FullPage(home)
    /\ home.edits > 0
    /\ ScoresTotal = 1750
    /\ home.calculatedMood.totalScore = 1750
    /\ home.calculatedMood.label = "Normal"

(***************************************************************************)
(* C18                                                                     *)
(***************************************************************************)
CategoryRank(label) == IF label = "Bad" THEN 0 ELSE IF label = "Normal" THEN 1 ELSE 2

\* the step is an edit that raises the score of one theme and leaves the
\* scores of the other themes as they were
RaisesOneTheme ==
    /\ FullPage(home)
    /\ FullPage(home')
    /\ home'.edits = home.edits + 1
    /\ \E themeKey \in Themes :
          /\ home'.dailyEntry.scores[themeKey] > home.dailyEntry.scores[themeKey]
          /\ \A other \in Themes \ {themeKey} :
                home'.dailyEntry.scores[other] = home.dailyEntry.scores[other]

\* C18: raising a single theme's score while the others stay fixed never
\* moves the category from Good to Normal or Bad, nor from Normal to Bad
C18_ClassificationMonotonic ==
    [][RaisesOneTheme =>
          CategoryRank(home'.calculatedMood.label) >= CategoryRank(home.calculatedMood.label)]_vars

\* an edit has raised a theme of an entry whose first questions were all
\* answered -0.25: the category is Normal, one step above -0.75
C18_Witness ==
    /\ FullPage(home)
    /\ home.edits > 0
    /\ ScoresTotal = -4750
    /\ home.calculatedMood.label = "Normal"
    /\ \E themeKey \in Themes, q \in QuestionIndexes :
          ScoreAt(home.dailyEntry.detailedScores, themeKey, q) = 250

(***************************************************************************)
(* C19                                                                     *)
(***************************************************************************)
\* every one of the 56 questions of the page's entry has the score value
AllAnswered(value) ==
    \A themeKey \in Themes, q \in QuestionIndexes :
        ScoreAt(home.dailyEntry.detailedScores, themeKey, q) = value

NoneAnswered ==
    \A themeKey \in Themes : DOMAIN home.dailyEntry.detailedScores[themeKey] = {}

\* every theme total of the page's entry is total, and the page shows the
\* category and the displayed total
Shows(total, label, displayed) ==
    /\ \A themeKey \in Themes : home.dailyEntry.scores[themeKey] = total
    /\ home.calculatedMood.label = label
    /\ home.calculatedMood.totalScore = displayed

\* C19: all 56 questions scored +0.25 give every theme total 2.0, category
\* Good and displayed total 14.0; all scored -0.25 give -2.0, Bad and -14.0;
\* no question answered gives totals 0, Normal and 0
C19_AnswersToMood ==
    FullPage(home) =>
       /\ AllAnswered(250) => Shows(2000, "Good", 14000)
       /\ AllAnswered(-250) => Shows(-2000, "Bad", -14000)
       /\ NoneAnswered => Shows(0, "Normal", 0)

\* the last open question has been answered +0.25 on the page
C19_Witness ==
    /\ FullPage(home)
    /\ home.edits > 0
    /\ AllAnswered(250)
    /\ Shows(2000, "Good", 14000)


(***************************************************************************)
(* C20                                                                     *)
(***************************************************************************)
\* the cells of a written row: the theme totals follow the date, the day
\* and the total; then come a score cell and a label cell per question
TotalCell(row, themeKey) == row[3 + ThemeNumber(themeKey)]

ScoreCell(row, themeKey, q) ==
    row[3 + Len(themeOrder) + 2 * ((ThemeNumber(themeKey) - 1) * questionsCount + q) + 1]

LabelCell(row, themeKey, q) ==
    row[3 + Len(themeOrder) + 2 * ((ThemeNumber(themeKey) - 1) * questionsCount + q) + 2]

\* the theme totals and the labels derived again from the score cells of
\* the row are the totals and the labels the row holds
RoundTrips(row) ==
    \A themeKey \in Themes :
        /\ ScoreCell(row, themeKey, 0) + ScoreCell(row, themeKey, 1)
             + ScoreCell(row, themeKey, 2) + ScoreCell(row, themeKey, 3)
             + ScoreCell(row, themeKey, 4) + ScoreCell(row, themeKey, 5)
             + ScoreCell(row, themeKey, 6) + ScoreCell(row, themeKey, 7)
             = TotalCell(row, themeKey)
        /\ \A q \in QuestionIndexes :
              getAnswerLabelForScore(themeKey, q, ScoreCell(row, themeKey, q))
                 = LabelCell(row, themeKey, q)

\* C20: for every entry, entries with unanswered questions included, the
\* theme totals and the answer labels derived again from the score cells of
\* the exported row are the theme totals and the label cells it was written
\* with
C20_ExportedRowRoundTrips ==
    \A k \in Invocations :
        (ExportInFlight(k) /\ Len(ex[k].data) > 0) => RoundTrips(ex[k].data[1])


(***************************************************************************)
(* The page with its store, and the page up to the start of an export      *)
(***************************************************************************)
\* getDailyEntry(date) of lib/storage: the entry saved under the date, or
\* the zero-initialised entry of the date
getDailyEntry(date) == IF HasEntry(store[date]) THEN store[date] ELSE NewEntry(date)

\* the page alone over its store: dates are picked, entries load, answers
\* and notes are edited
NextPage ==
    \/ HomeMounted
    \/ \E date \in Dates : handleDateChange(date)
    \/ \E date \in home.loads : getDailyEntryResolved(date, getDailyEntry(date))
    \/ \E date \in home.loads : getDailyEntryRejected(date)
    \/ \E theme \in Themes, questionIndex \in QuestionIndexes, value \in RadioValues :
          handleValueChange(theme, questionIndex, value)
    \/ \E field \in {"positives", "negatives"}, value \in Notes :
          handleNotesChange(field, value)

SpecPage == InitScore /\ [][NextPage]_vars

\* entries found in the store when the page opens: the entry of a new day,
\* the form answered throughout with one score, and one question left open
OpenedEntries(date) ==
    {NewEntry(date), FilledEntry(date, Len(themeOrder) * questionsCount - 1, 250)}
    \cup {FilledEntry(date, Len(themeOrder) * questionsCount, v) : v \in QuestionScores}

\* the page of one day up to the start of an export: the entry loads, is
\* edited, and Export is clicked; the server action is not followed
NextExportRow ==
    \/ HomeMounted
    \/ \E date \in home.loads : \E entry \in OpenedEntries(date) :
          getDailyEntryResolved(date, entry)
    \/ \E theme \in Themes, questionIndex \in QuestionIndexes, value \in RadioValues :
          handleValueChange(theme, questionIndex, value)
    \/ \E field \in {"positives", "negatives"}, value \in Notes :
          handleNotesChange(field, value)
    \/ MoodAnalysisMounted
    \/ \E k \in Invocations : handleExportData(k)

SpecExportRow == InitClient /\ [][NextExportRow]_vars


(***************************************************************************)
(* C21                                                                     *)
(***************************************************************************)
\* the step starts the export k
ExportStarts(k) == ex[k].pc = "idle" /\ ex'[k].pc # "idle"

WeekDays ==
    {"poniedzialek", "wtorek", "sroda", "czwartek", "piatek", "sobota", "niedziela"}

\* the answer texts of a question, and the text of an unanswered one
AnswerTexts(themeKey, q) ==
    {NegativeLabels[themeKey][q + 1], NeutralLabels[themeKey][q + 1],
     PositiveLabels[themeKey][q + 1], "N/A"}

\* the cell holds what the column of that name is for, taken from the entry
HoldsColumn(cell, column, entry) ==
    IF column.word = "Date" THEN cell = <<entry.date>>
    ELSE IF column.word = "Dzien Tygodnia" THEN cell \in WeekDays
    ELSE IF column.word = "Suma Punktow"
    THEN LET s == entry.scores
         IN  cell = s.dreaming + s.moodScore + s.training + s.diet
                      + s.socialRelations + s.familyRelations + s.selfEducation
    ELSE IF column.word = "Wynik Ogolny" THEN cell = entry.scores[column.theme]
    ELSE IF column.word = "Wynik"
    THEN LET answers == entry.detailedScores[column.theme]
         IN  cell = IF column.question \in DOMAIN answers THEN answers[column.question] ELSE 0
    ELSE IF column.word = "Odpowiedz" THEN cell \in AnswerTexts(column.theme, column.question)
    ELSE IF column.word = "Pozytywy" THEN cell = entry.positives
    ELSE cell = entry.negatives

\* the 124 columns in the order the claim gives them
ColumnWords ==
    [i \in 1..124 |->
        IF i = 1 THEN "Date" ELSE IF i = 2 THEN "Dzien Tygodnia"
        ELSE IF i = 3 THEN "Suma Punktow" ELSE IF i <= 10 THEN "Wynik Ogolny"
        ELSE IF i = 123 THEN "Pozytywy" ELSE IF i = 124 THEN "Negatywy"
        ELSE IF i % 2 = 1 THEN "Wynik" ELSE "Odpowiedz"]

RowAlignedWithHeader(entry, headers, row) ==
    /\ Len(row) = 124
    /\ Len(headers) = Len(row)
    /\ Len(generateSheetHeaders) = Len(headers)
    /\ \A i \in 1..Len(row) :
          /\ generateSheetHeaders[i].word = ColumnWords[i]
          /\ HoldsColumn(row[i], generateSheetHeaders[i], entry)

\* C21: for every entry the exported data row has as many cells as the
\* header row, 124, and is aligned with it: date, week day, total, the 7
\* theme totals, a (score, label) pair per question, positives, negatives
C21_RowAlignedWithHeader ==
    [][\A k \in Invocations :
          ExportStarts(k) =>
             /\ Len(ex'[k].data) = 1
             /\ RowAlignedWithHeader(home.dailyEntry, ex'[k].headers, ex'[k].data[1])]_vars

\* an export of an edited entry with a note has started: the first score
\* cell and the last cell of its row are filled
C21_Witness ==
    \E k \in Invocations :
        /\ ex[k].pc # "idle"
        /\ home.edits > 0
        /\ Len(ex[k].data) = 1
        /\ Len(ex[k].data[1]) = Len(ex[k].headers)
        /\ ex[k].data[1][11] = 250
        /\ ex[k].data[1][123] = "spacer"


(***************************************************************************)
(* Exports against a sheet whose date column was filled by hand            *)
(***************************************************************************)
\* offsets from UTC, in hours, of the servers' clocks
TimeZones == {-5, 0, 2}

\* cells met in column A: blank, a text that is no date, a date text, a
\* date text with a trailing space, the date serials of the two days
DateCells == {<<>>, <<99>>, <<11>>, <<12, Space>>, SerialOf(11), SerialOf(12)}

\* a sheet row of three cells under the header HeadersABC
SheetRow(dateCell) == <<dateCell, <<1>>, <<1>>>>

IndexedSheets ==
    {<<HeadersABC>> \o rows :
        rows \in SeqsUpTo({SheetRow(cell) : cell \in DateCells}, MaxSheetRows - 1) \ {<<>>}}

IndexInputs == {inp \in ExportInputs : inp.headers = HeadersABC}

InitIndex ==
    /\ env \in {[GoodEnv EXCEPT !.TZ = offset] : offset \in TimeZones}
    /\ sheet \in IndexedSheets
    /\ ex = [c \in Clients |-> IdleExport]
    /\ home = HomeInit
    /\ analysis = AnalysisInit
    /\ store = StoreInit
    /\ sheetAnalysis = IdleAnalysis
    /\ speech = SpeechInit

\* the header found is the header sent, so the sheet is neither cleared nor
\* given a new header
NextIndex ==
    \E c \in Clients :
        \/ \E input \in IndexInputs : exportToGoogleSheets(c, input)
        \/ Return(c)
        \/ Authenticate(c)
        \/ GetHeaders(c)
        \/ GetDates(c)
        \/ BatchUpdate(c)
        \/ AppendRows(c)

SpecIndex == InitIndex /\ [][NextIndex]_vars


(***************************************************************************)
(* C22  numeric date cells                                                 *)
(***************************************************************************)
\* the date column has just been read without failure and the input rows
\* have been dispatched against the index built from it
IndexedAndDispatched(e) ==
    /\ e.pc \in {"batchUpdate", "append"}
    /\ e.ops # <<>>
    /\ e.ops[Len(e.ops)] = "getDates"
    /\ FailureFree(e)

RowQueuedForUpdate(e, i) ==
    \E j \in 1..Len(e.rowsToUpdate) : e.rowsToUpdate[j].values = <<e.data[i]>>

\* C22: a date cell holding the numeric serial s is keyed as the calendar day
\* s - 25569 days after 1970-01-01 whatever the time zone of the server: when
\* the sheet holds the serial of an input row's day, the row is found in the
\* index and queued for update.
C22_SerialKeyedAsItsDay ==
    \A c \in Clients :
        IndexedAndDispatched(ex[c]) =>
            \A i \in 1..Len(ex[c].data) :
                (\E r \in 2..Len(sheet) : sheet[r][1] = SerialOf(ex[c].data[i][1][1]))
                    => RowQueuedForUpdate(ex[c], i)


(***************************************************************************)
(* C23  every edit is saved                                                *)
(***************************************************************************)
\* a question score or a note of the entry shown has been edited in this step
EntryEdited == home'.edits = home.edits + 1

FallbackLabels == {"Negative", "Neutral", "Positive"}

\* C24: for each of the 7 themes, each question index 0..7 and each score of
\* -0.25, 0, +0.25 and undefined the label lookup returns a non-empty string,
\* the 'not answered' sentinel exactly for undefined and never one of the
\* generic fallbacks: so are the label cells of every row handed to an export.
C24_LabelLookupTotal ==
    [][\A k \in Invocations :
          ExportStarts(k) =>
              \A themeKey \in Themes, q \in QuestionIndexes :
                  LET label == LabelCell(ex'[k].data[1], themeKey, q)
                      score == ScoreAt(home.dailyEntry.detailedScores, themeKey, q)
                  IN  /\ label # ""
                      /\ label \notin FallbackLabels
                      /\ (label = "N/A") <=> (score = undefined)]_vars

\* an export of an edited entry whose row holds an answer's own label and,
\* for an unanswered question, the sentinel
C24_Witness ==
    \E k \in Invocations :
        /\ ExportInFlight(k)
        /\ ex[k].data # <<>>
        /\ LabelCell(ex[k].data[1], "selfEducation", 7) = "N/A"
        /\ LabelCell(ex[k].data[1], "selfEducation", 6) = "tak z inwestycjami"
        /\ home.edits > 0


(***************************************************************************)
(* C25  an unanswered question in the live form                            *)
(***************************************************************************)
\* C25: in the live form the selection displayed for a question without a
\* score is not the selection displayed for a question answered with 0.
C25_UnansweredShownUnset ==
    FullPage(home) =>
        \A themeKey \in Themes, q \in QuestionIndexes :
            LET currentScore == ScoreAt(home.dailyEntry.detailedScores, themeKey, q)
            IN  currentScore = undefined
                    => RadioGroupValue(currentScore) # RadioGroupValue(0)


(***************************************************************************)
(* The analysis action (analyze-sheet-data.ts)                             *)
(***************************************************************************)
\* a header word with a capital has a code of 21..144; its lower-case form
\* has that code plus 1000
toLowerCase(s) ==
    [i \in 1..Len(s) |-> IF s[i] \in 21..(20 + SheetHeaderCount) THEN s[i] + 1000 ELSE s[i]]

\* 'date'
dateHeaderKey == toLowerCase(SHEET_HEADERS[1])

\* lines 103-104 and 111: headerMap[h.trim().toLowerCase()] = i, then
\* headerMap['date']; 0 when no header cell gives the key 'date'
dateColIdx(headers) ==
    LET found == {i \in 1..Len(headers) : toLowerCase(Trim(headers[i])) = dateHeaderKey}
    IN  IF found = {} THEN 0 ELSE SetMax(found)

\* lines 116-127: the instant, in hours from 1970-01-01T00:00Z, that the
\* date cell stands for, NoCount when it stands for none: local midnight of
\* a date text, midnight UTC of a serial's day
dateObjOf(dateStr) ==
    IF dateStr = <<>> THEN NoCount
    ELSE IF typeofNumber(dateStr) THEN (dateStr[1] - excelEpochDiff) * 24
    ELSE IF IsIsoDateText(Trim(dateStr)) THEN Trim(dateStr)[1] * 24 - env.TZ
    ELSE NoCount

\* subDays(new Date(), 30), now being an instant in hours
thirtyDaysAgo(now) == now - 30 * 24

\* line 139 and 155: a.Date, the cell stored under the header 'Date' as it
\* is spelt in the sheet; <<>> when no header cell is spelt so
DateProperty(headers, row) ==
    LET spelt == {i \in 1..Len(headers) : headers[i] = SHEET_HEADERS[1]}
    IN  IF spelt = {} \/ SetMax(spelt) > Len(row) THEN <<>> ELSE row[SetMax(spelt)]

\* new Date(a.Date).getTime() in milliseconds: a number is taken as
\* milliseconds, a date text as midnight UTC; NoCount when NaN
getTime(value) ==
    IF value = <<>> THEN NoCount
    ELSE IF typeofNumber(value) THEN value[1]
    ELSE IF IsIsoDateText(value) THEN value[1] * 24 * 60 * 60 * 1000
    ELSE NoCount

\* the comparator of line 155; a NaN difference counts as 0
compareByDate(a, b) ==
    IF getTime(a.Date) = NoCount \/ getTime(b.Date) = NoCount THEN 0
    ELSE getTime(a.Date) - getTime(b.Date)

\* Array.prototype.sort with compareByDate (stable)
RECURSIVE sortByDate(_)
sortByDate(entries) ==
    IF Len(entries) <= 1 THEN entries
    ELSE LET front == sortByDate(SubSeq(entries, 1, Len(entries) - 1))
             last == entries[Len(entries)]
             kept == {i \in 0..Len(front) :
                         \A j \in (i + 1)..Len(front) : compareByDate(front[j], last) > 0}
             at == CHOOSE i \in kept : \A j \in kept : i <= j
         IN  SubSeq(front, 1, at) \o <<last>> \o SubSeq(front, at + 1, Len(front))


\* lines 133-151: the record built from sheet row r, a data row whose date
\* cell stands for the instant dateObj; the other cells are copied under
\* their headers, a header spelt 'date' replacing the formatted date
EntryForAI(headers, r, row, dateObj) ==
    LET lower == {i \in 1..Len(headers) : headers[i] = dateHeaderKey}
    IN  [row |-> r,
         date |-> IF lower = {} THEN format(dateObj)
                  ELSE IF SetMax(lower) > Len(row) THEN <<>> ELSE row[SetMax(lower)],
         Date |-> DateProperty(headers, row)]

\* lines 110-153: the records of the data rows whose date cell stands for an
\* instant not before thirtyDaysAgo, in sheet order
RECURSIVE entriesFrom(_, _, _)
entriesFrom(rows, r, now) ==
    IF r > Len(rows) THEN <<>>
    ELSE LET col == dateColIdx(rows[1])
             dateStr == IF col > Len(rows[r]) THEN <<>> ELSE rows[r][col]
             dateObj == dateObjOf(dateStr)
         IN  (IF dateObj # NoCount /\ dateObj >= thirtyDaysAgo(now)
              THEN <<EntryForAI(rows[1], r, rows[r], dateObj)>> ELSE <<>>)
                 \o entriesFrom(rows, r + 1, now)

AnalysisFailure(a, errorMsg) ==
    [a EXCEPT !.pc = "done", !.result = [success |-> FALSE, text |-> errorMsg]]

AnalysisSuccess(a, message) ==
    [a EXCEPT !.pc = "done", !.result = [success |-> TRUE, text |-> message]]

\* what the text field and the recognition of speech put in customPrompt
Prompts == {"Jak spalem w tym tygodniu?", "Co obniza moj nastroj?"}

\* mood-analysis.tsx lines 124, 218, 257: analyzeSheetData(promptToUse) is
\* called with undefined by the Analyze button and with customPrompt by the
\* question button.  Lines 50-69: the action, which declares no parameter,
\* up to the first await
analyzeSheetData(promptToUse) ==
    /\ sheetAnalysis.pc = "idle"
    /\ sheetAnalysis' =
          LET called == [IdleAnalysis EXCEPT !.promptToUse = promptToUse]
          IN  IF missingVars(env) # <<>>
              THEN AnalysisFailure(called, "Blad konfiguracji serwera: Brakujace zmienne srodowiskowe")
              ELSE IF ~isPrivateKeyFormatValid(GOOGLE_PRIVATE_KEY(env))
              THEN AnalysisFailure(called, "Nieprawidlowy format GOOGLE_PRIVATE_KEY.")
              ELSE [called EXCEPT !.pc = "auth"]
    /\ UNCHANGED <<env, sheet, ex, home, analysis, store, speech>>

\* lines 71-81: await auth.getClient()
AnalysisAuthenticate ==
    /\ sheetAnalysis.pc = "auth"
    /\ \/ sheetAnalysis' = [sheetAnalysis EXCEPT !.pc = "get"]
       \/ sheetAnalysis' = AnalysisFailure(sheetAnalysis, "Blad autoryzacji")
    /\ UNCHANGED <<env, sheet, ex, home, analysis, store, speech>>

\* the readings of the server's clock, in hours: midnight and noon of the
\* days of the entries and of the days 30 days after them
ClockReadings ==
    {day * 24 + hour : day \in Dates \cup {d + 30 : d \in Dates}, hour \in {0, 12}}

AnalysisGetValuesPrompted ==
    /\ sheetAnalysis.pc = "get"
    /\ \E clock \in ClockReadings :
          sheetAnalysis' = [sheetAnalysis EXCEPT
              !.pc = "analyzeSheetTrends",
              !.now = clock - env.TZ,
              !.sheetEntriesForAI =
                  IF sheetAnalysis.promptToUse = NoText
                  THEN sortByDate(entriesFrom(sheet, 2, clock - env.TZ))
                  ELSE <<>>]
    /\ UNCHANGED <<env, sheet, ex, home, analysis, store, speech>>

\* lines 87-160: await values.get of the whole sheet, then the snapshot
AnalysisGetValues ==
    /\ sheetAnalysis.pc = "get"
    /\ \/ \E clock \in ClockReadings :
             LET now == clock - env.TZ
                 rows == sheet
             IN  sheetAnalysis' =
                    IF Len(rows) < 2
                    THEN AnalysisFailure(sheetAnalysis, "Brak wystarczajacych danych w arkuszu do analizy")
                    ELSE IF dateColIdx(rows[1]) = 0
                    THEN AnalysisFailure(sheetAnalysis, "Nie mozna zlokalizowac kolumny 'Date'. Sprawdz naglowki.")
                    ELSE LET sorted == sortByDate(entriesFrom(rows, 2, now))
                         IN  IF sorted = <<>>
                             THEN AnalysisSuccess([sheetAnalysis EXCEPT !.now = now],
                                                  "Brak danych z ostatnich 30 dni.")
                             ELSE [sheetAnalysis EXCEPT !.pc = "analyzeSheetTrends",
                                                        !.now = now,
                                                        !.sheetEntriesForAI = sorted]
       \/ sheetAnalysis' = AnalysisFailure(sheetAnalysis,
                              "Nie udalo sie przeanalizowac danych z arkusza za pomoca AI.")
    /\ UNCHANGED <<env, sheet, ex, home, analysis, store, speech>>

\* lines 164-184: await analyzeSheetTrends({ sheetDataJson })
analyzeSheetTrendsSettled ==
    /\ sheetAnalysis.pc = "analyzeSheetTrends"
    /\ \/ sheetAnalysis' = AnalysisSuccess(sheetAnalysis, "Analiza AI zakonczona.")
       \/ sheetAnalysis' = AnalysisFailure(sheetAnalysis,
                              "Nie udalo sie przeanalizowac danych z arkusza za pomoca AI.")
    /\ UNCHANGED <<env, sheet, ex, home, analysis, store, speech>>

\* the caller has consumed the result
AnalysisReturn ==
    /\ sheetAnalysis.pc = "done"
    /\ sheetAnalysis' = IdleAnalysis
    /\ UNCHANGED <<env, sheet, ex, home, analysis, store, speech>>

\* the header rows met: the header the export writes, 'Date' with a leading
\* space, 'date' in lower case, and a header without a date column
AnalysisHeaders ==
    {HeadersABC,
     << <<Space, 21>>, <<22>>, <<23>> >>,
     <<dateHeaderKey, <<22>>, <<23>>>>,
     << <<22>>, <<23>>, <<24>> >>}

\* date cells without surrounding blanks
PlainDateCells == {<<>>, <<99>>, <<11>>, <<12>>, SerialOf(11), SerialOf(12)}

AnalysisSheets ==
    {<<>>}
    \cup {<<h>> \o rows :
             h \in AnalysisHeaders,
             rows \in SeqsUpTo({SheetRow(cell) : cell \in PlainDateCells}, MaxSheetRows - 1)}

InitAnalysis ==
    /\ env \in Envs \cup {[GoodEnv EXCEPT !.TZ = offset] : offset \in TimeZones}
    /\ sheet \in AnalysisSheets
    /\ ex = [c \in Clients |-> IdleExport]
    /\ home = HomeInit
    /\ analysis = AnalysisInit
    /\ store = StoreInit
    /\ sheetAnalysis = IdleAnalysis
    /\ speech = SpeechInit

NextAnalysis ==
    \/ \E promptToUse \in Prompts \cup {NoText} : analyzeSheetData(promptToUse)
    \/ AnalysisAuthenticate
    \/ AnalysisGetValues
    \/ analyzeSheetTrendsSettled
    \/ AnalysisReturn

SpecAnalysis == InitAnalysis /\ [][NextAnalysis]_vars


(***************************************************************************)
(* C26  the snapshot handed to the analysis gateway                        *)
(***************************************************************************)
\* the day a date cell parses to, NoCount when it parses to none
DayOfCell(cell) ==
    IF cell = <<>> THEN NoCount
    ELSE IF typeofNumber(cell) THEN cell[1] - excelEpochDiff
    ELSE IF IsIsoDateText(Trim(cell)) THEN Trim(cell)[1]
    ELSE NoCount

\* the day on the server's clock when the sheet was read
TodayOf(a) == (a.now + env.TZ) \div 24

SnapshotRows(a) == {a.sheetEntriesForAI[i].row : i \in 1..Len(a.sheetEntriesForAI)}

\* the snapshot holds the rows of the last 30 days and no row of another
\* day; the day exactly 30 days back may be in or out
SnapshotIsWindow(a) ==
    \A r \in 2..Len(sheet) :
        LET day == DayOfCell(sheet[r][1])
        IN  /\ (day # NoCount /\ day > TodayOf(a) - 30 /\ day <= TodayOf(a))
                  => r \in SnapshotRows(a)
            /\ r \in SnapshotRows(a)
                  => (day # NoCount /\ day >= TodayOf(a) - 30 /\ day <= TodayOf(a))

SnapshotOneRecordPerRow(a) ==
    \A i, j \in 1..Len(a.sheetEntriesForAI) :
        i # j => a.sheetEntriesForAI[i].row # a.sheetEntriesForAI[j].row

SnapshotAscending(a) ==
    \A i, j \in 1..Len(a.sheetEntriesForAI) :
        i < j => DayOfCell(sheet[a.sheetEntriesForAI[i].row][1])
                    <= DayOfCell(sheet[a.sheetEntriesForAI[j].row][1])

\* C26: the snapshot handed to the analysis gateway contains exactly the
\* sheet rows whose date cell parses to a day within the last 30 days, one
\* record per row, in ascending date order.
C26_SnapshotIsLast30DaysAscending ==
    sheetAnalysis.pc = "analyzeSheetTrends" =>
        /\ SnapshotIsWindow(sheetAnalysis)
        /\ SnapshotOneRecordPerRow(sheetAnalysis)
        /\ SnapshotAscending(sheetAnalysis)


(***************************************************************************)
(* C27  a failed remote call ends the export                               *)
(***************************************************************************)
FatalOps == {"getHeaders", "clear", "updateHeaders", "getDates", "batchUpdate"}

\* the remote call op of the invocation has failed, and not as a read
\* answered with 400 'Unable to parse range'; a batch update has failed when
\* it was issued and no row counts as updated
FailedFatally(e, op) ==
    IF op = "batchUpdate"
    THEN op \in OpsOf(e) /\ e.rowsUpdatedCount = 0
    ELSE \E i \in 1..Len(e.failed) :
            /\ e.failed[i].op = op
            /\ ~(op \in {"getHeaders", "getDates"}
                    /\ e.failed[i].kind = "400 Unable to parse range")

\* C27: when the header probe, the clear, the header write, the date-column
\* read or the batch update fails, other than a read failing with 'Unable to
\* parse range', the export returns failure and the failed call is the last
\* remote call it has issued.
C27_FailureEndsExport ==
    \A c \in Clients, op \in FatalOps :
        FailedFatally(ex[c], op) =>
            /\ ex[c].pc = "done"
            /\ ~ex[c].result.success
            /\ ex[c].ops[Len(ex[c].ops)] = op

\* an export whose date-column read was refused has ended there
C27_Witness ==
    \E c \in Clients :
        /\ FailedKind(ex[c], "getDates", "403")
        /\ ex[c].pc = "done"
        /\ ex[c].data # <<>>
        /\ ex[c].ops = <<"auth", "getHeaders", "getDates">>


(***************************************************************************)
(* C28  after a header write every row is appended                         *)
(***************************************************************************)
HeaderJustWritten(e) == "updateHeaders" \in OpsOf(e) /\ ~FailedOp(e, "updateHeaders")

\* C28: when the export has written the header, after a migration or on a
\* sheet without a header row, the date column is not read and every input
\* row is queued for append, none for update; a successful export reports
\* all of them appended.
C28_HeaderWrittenAppendsAll ==
    \A c \in Clients :
        LET e == ex[c]
        IN  HeaderJustWritten(e) =>
               /\ e.pc \notin {"getDates", "batchUpdate"}
               /\ OpsOf(e) \cap {"getDates", "batchUpdate"} = {}
               /\ e.rowsToUpdate = <<>>
               /\ e.rowsToAppend = e.data
               /\ (e.pc = "done" /\ e.result.success) =>
                     /\ e.result.rowsAppended = Len(e.data)
                     /\ e.result.rowsUpdated = 0

\* an export has written the header on a sheet that had no header row but
\* already held a row of the exported date, and has appended its rows
C28_Witness ==
    \E c \in Clients :
        LET e == ex[c]
        IN  /\ e.pc = "done" /\ e.result.success
            /\ HeaderJustWritten(e)
            /\ "clear" \notin OpsOf(e)
            /\ e.data # <<>>
            /\ \E r \in 2..Len(e.sheet0) : e.sheet0[r][1] = e.data[1][1]
            /\ "append" \in OpsOf(e)


(***************************************************************************)
(* C29  the row recorded for a date key                                    *)
(***************************************************************************)
\* the cell is a date cell read under the key: the date text itself, blanks
\* around it aside, or a date serial
ReadAs(cell, key) ==
    /\ cell # <<>>
    /\ typeofNumber(cell) \/ Trim(cell) = key

SkippedCell(cell) == cell = <<>> \/ (~typeofNumber(cell) /\ ~IsIsoDateText(Trim(cell)))

\* C29: the position recorded for a date key is the 1-based sheet row of the
\* cell it was read from, the first data row being row 2, also below blank or
\* unparseable date cells: every update queued after the read is aimed at a
\* sheet row whose date cell was read under the date of the row it carries.
\* Blank and unparseable cells are skipped and do not fail the export.
C29_IndexedRowIsSheetRow ==
    \A c \in Clients :
        LET e == ex[c]
        IN  /\ IndexedAndDispatched(e) =>
                  \A j \in 1..Len(e.rowsToUpdate) :
                      LET rowIndex == e.rowsToUpdate[j].range.startRow
                      IN  /\ rowIndex \in 2..Len(sheet)
                          /\ ReadAs(sheet[rowIndex][1], e.rowsToUpdate[j].values[1][1])
            /\ ("getDates" \in OpsOf(e) /\ FailureFree(e) /\ e.pc = "done") => e.result.success

\* the date column has been read on a sheet whose first data row has a blank
\* or unparseable date cell, and an update is aimed at the row below it
C29_Witness ==
    \E c \in Clients :
        LET e == ex[c]
        IN  /\ IndexedAndDispatched(e)
            /\ SkippedCell(sheet[2][1])
            /\ \E j \in 1..Len(e.rowsToUpdate) : e.rowsToUpdate[j].range.startRow = 3


(***************************************************************************)
(* C30  every input row is queued exactly once                             *)
(***************************************************************************)
\* the invocation has read the date column, or found it unreadable with
\* 'Unable to parse range', and has dispatched its input rows
ReachedDispatch(e) == "getDates" \in OpsOf(e) /\ ~FailedFatally(e, "getDates")

TimesQueued(e, row) ==
    Cardinality({j \in 1..Len(e.rowsToUpdate) : e.rowsToUpdate[j].values = <<row>>})
        + Cardinality({j \in 1..Len(e.rowsToAppend) : e.rowsToAppend[j] = row})

\* C30: in every export that reaches dispatch each input row is queued
\* exactly once, in the update batch or in the append batch, and nothing else
\* is queued; so no export of a non-empty input ends with the summary 'data
\* already up to date'.
C30_EachRowQueuedOnce ==
    \A c \in Clients :
        LET e == ex[c]
        IN  /\ ReachedDispatch(e) =>
                  /\ \A i \in 1..Len(e.data) : TimesQueued(e, e.data[i]) = 1
                  /\ Len(e.rowsToUpdate) + Len(e.rowsToAppend) = Len(e.data)
            /\ (e.pc = "done" /\ e.result.success /\ Len(e.data) > 0) =>
                  e.result.message.text # "Dane z aplikacji sa juz aktualne w arkuszu."

\* an export of two rows has finished with one of them updated in place and
\* the other appended
C30_Witness ==
    \E c \in Clients :
        LET e == ex[c]
        IN  /\ e.pc = "done" /\ e.result.success
            /\ ReachedDispatch(e)
            /\ Len(e.data) = 2
            /\ e.result.rowsUpdated = 1 /\ e.result.rowsAppended = 1
            /\ e.rowsToUpdate[1].values # <<e.rowsToAppend[1]>>


(***************************************************************************)
(* C31  a layout is migrated to at most once                               *)
(***************************************************************************)
NeverClears(e) == e.pc # "clear" /\ "clear" \notin OpsOf(e)

ShowsEntry(h) == h.isClient /\ ~h.isLoadingEntry /\ HasEntry(h.dailyEntry)

exportToGoogleSheetsRejected(k) ==
    /\ analysis.exportHandler[k] # "none"
    /\ ex[k].pc # "done"
    /\ analysis' =
          IF analysis.exportHandler[k] = "mounted"
          THEN [analysis EXCEPT !.state.error = "Export nie powiodl sie.",
                                !.state.isExporting = FALSE,
                                !.exportHandler[k] = "none"]
          ELSE [analysis EXCEPT !.exportHandler[k] = "none"]
    /\ ex' = [ex EXCEPT ![k] = IdleExport]
    /\ UNCHANGED <<env, sheet, home, store, sheetAnalysis, speech>>

\* the server action's next remote call is answered, or its result reaches
\* the handler that awaits it
ExportProgress(k) ==
    \/ Authenticate(k)
    \/ GetHeaders(k)
    \/ UpdateHeaders(k)
    \/ GetDates(k)
    \/ BatchUpdate(k)
    \/ AppendRows(k)
    \/ exportToGoogleSheetsSettled(k)

\* the page with its Export button on the day it opens with: the entry
\* loads, exports are started, run on the server and settle or throw
NextExportBusy ==
    \/ HomeMounted
    \/ \E date \in home.loads : getDailyEntryResolved(date, NewEntry(date))
    \/ \E date \in home.loads : getDailyEntryRejected(date)
    \/ MoodAnalysisMounted
    \/ \E k \in Invocations :
          \/ handleExportData(k)
          \/ exportToGoogleSheetsRejected(k)
          \/ ExportProgress(k)

\* every remote call is answered and every settled promise resumes its
\* handler
SpecExportBusy ==
    InitClient /\ [][NextExportBusy]_vars /\ \A k \in Invocations : WF_vars(ExportProgress(k))

\* C33: every export started from the UI eventually clears the busy flag,
\* whether the server action succeeds, returns a failure or throws:
\* isExporting returns to false.
C33_BusyFlagCleared ==
    (analysis.mounted /\ analysis.state.isExporting) ~> ~analysis.state.isExporting

\* an export has returned a failure to the handler that started it, and the
\* flag is clear again
C33_Witness ==
    /\ analysis.mounted
    /\ ~analysis.state.isExporting
    /\ analysis.exports > 0
    /\ analysis.state.error = "Failed to append new data"
    /\ \A k \in Invocations : analysis.exportHandler[k] = "none"



(***************************************************************************)
(* C34  the sessions of one speech-recognition hook instance               *)
(***************************************************************************)
\* the SpeechRecognition objects one hook instance creates in a run
MaxSessions == 3

\* lines 79-122: the part of startListening after the permission check: a
\* new SpeechRecognition object is stored in recognitionRef and started
StartSession(sp) ==
    [sp EXCEPT !.isListening = TRUE,
               !.error = NoText,
               !.recognition = Append(@, "listening"),
               !.recognitionRef = Len(sp.recognition) + 1]

\* lines 58-66: navigator.permissions.query has answered
permissionsQueryResolved(state) ==
    /\ ~speech.queried
    /\ speech' = [speech EXCEPT !.permissionStatus = state, !.queried = TRUE]
    /\ UNCHANGED <<env, sheet, ex, home, analysis, store, sheetAnalysis>>

\* lines 70-77: a click on the microphone button of a hook that is not
\* listening, up to the await of the permission request or, with the
\* permission granted, through to recognition.start()
startListening(k) ==
    /\ ~speech.isListening
    /\ FreeName(speech.calls, k)
    /\ Len(speech.recognition)
          + Cardinality({j \in Invocations : speech.calls[j] # "none"}) < MaxSessions
    /\ speech' = IF speech.permissionStatus # "granted"
                 THEN [speech EXCEPT !.calls[k] = "getUserMedia"]
                 ELSE StartSession(speech)
    /\ UNCHANGED <<env, sheet, ex, home, analysis, store, sheetAnalysis>>

\* lines 38-41, 76-122: getUserMedia has resolved; the suspended call
\* resumes after its await and goes on to start a session
getUserMediaResolved(k) ==
    /\ speech.calls[k] = "getUserMedia"
    /\ speech' = StartSession([speech EXCEPT !.permissionStatus = "granted",
                                             !.calls[k] = "none"])
    /\ UNCHANGED <<env, sheet, ex, home, analysis, store, sheetAnalysis>>

\* lines 42-47, 76: getUserMedia has been rejected; the suspended call returns
getUserMediaRejected(k) ==
    /\ speech.calls[k] = "getUserMedia"
    /\ speech' = [speech EXCEPT
                     !.permissionStatus = "denied",
                     !.error = "Odmowiono dostepu do mikrofonu. Sprawdz ustawienia przegladarki.",
                     !.calls[k] = "none"]
    /\ UNCHANGED <<env, sheet, ex, home, analysis, store, sheetAnalysis>>

\* lines 125-134: a click on the button of a hook that is listening
stopListening ==
    /\ speech.isListening
    /\ speech' = [speech EXCEPT
                     !.recognition =
                         IF speech.recognitionRef # 0 /\ @[speech.recognitionRef] = "listening"
                         THEN [@ EXCEPT ![speech.recognitionRef] = "stopping"]
                         ELSE @,
                     !.recognitionRef = 0,
                     !.isListening = FALSE]
    /\ UNCHANGED <<env, sheet, ex, home, analysis, store, sheetAnalysis>>

\* lines 106-114: a session that listens fails; the error event ends it
onerror(s) ==
    /\ speech.recognition[s] = "listening"
    /\ speech' = [speech EXCEPT !.recognition[s] = "ended",
                                !.error = "Blad rozpoznawania",
                                !.isListening = FALSE]
    /\ UNCHANGED <<env, sheet, ex, home, analysis, store, sheetAnalysis>>

\* lines 116-120: a session ends, after stop() or by itself
onend(s) ==
    /\ speech.recognition[s] \in {"listening", "stopping"}
    /\ speech' = [speech EXCEPT !.recognition[s] = "ended", !.isListening = FALSE]
    /\ UNCHANGED <<env, sheet, ex, home, analysis, store, sheetAnalysis>>

\* one hook instance in the page: the permission query answers, the button
\* is clicked, permission requests settle, sessions fail and end
NextSpeech ==
    \/ \E state \in {"granted", "prompt", "denied"} : permissionsQueryResolved(state)
    \/ \E k \in Invocations :
          \/ startListening(k)
          \/ getUserMediaResolved(k)
          \/ getUserMediaRejected(k)
    \/ stopListening
    \/ \E s \in 1..Len(speech.recognition) : onerror(s) \/ onend(s)

SpecSpeech == InitClient /\ [][NextSpeech]_vars

\* the sessions started and neither stopped nor ended
ActiveSessions == {s \in 1..Len(speech.recognition) : speech.recognition[s] = "listening"}

\* C34: a hook instance has at most one active recognition session, under
\* any interleaving of startListening calls, those made while the
\* permission request of an earlier call is pending included.
C34_AtMostOneActiveSession == Cardinality(ActiveSessions) <= 1


(***************************************************************************)
(* C35  the custom prompt and the input of the analysis gateway            *)
(***************************************************************************)
\* the input of analyzeSheetTrends for a sheet read at the instant now:
\* JSON.stringify of the sorted in-window records
sheetDataJson(rows, now) == sortByDate(entriesFrom(rows, 2, now))

\* the gateway call of the running analysis is pending
GatewayCalled == sheetAnalysis.pc = "analyzeSheetTrends"

SameAnswersBut(a, b, t, q) ==
    \A u \in Themes :
        /\ DOMAIN b.detailedScores[u] \subseteq QuestionIndexes
        /\ \A i \in QuestionIndexes :
              <<u, i>> # <<t, q>> =>
                  ScoreAt(b.detailedScores, u, i) = ScoreAt(a.detailedScores, u, i)

\* C36: every question score the form stores in an entry is one of -0.25, 0,
\* +0.25 at a question index 0..7; a form value outside that set changes
\* nothing, and one edit changes only the addressed (theme, question) cell
\* and the derived theme scores: the date, the notes and all other answers
\* stay as they were.
C36_EditChangesOneValidCell ==
    [][home'.dailyEntry # home.dailyEntry /\ HasEntry(home.dailyEntry) =>
          \E t \in Themes, q \in QuestionIndexes :
             /\ ScoreAt(home'.dailyEntry.detailedScores, t, q) \in QuestionScores
             /\ SameAnswersBut(home.dailyEntry, home'.dailyEntry, t, q)
             /\ home'.dailyEntry.scores = calculateOverallScores(home'.dailyEntry.detailedScores)
             /\ home'.dailyEntry.date = home.dailyEntry.date
             /\ home'.dailyEntry.positives = home.dailyEntry.positives
             /\ home'.dailyEntry.negatives = home.dailyEntry.negatives]_vars

C36_Witness ==
    /\ FullPage(home)
    /\ home.edits > 0
    /\ \E t \in Themes, q \in QuestionIndexes, r \in QuestionIndexes :
          /\ ScoreAt(home.dailyEntry.detailedScores, t, q) = -250
          /\ ScoreAt(home.dailyEntry.detailedScores, t, r) = 250


(***************************************************************************)
(* C37  the trends of the statistical sheet analysis                       *)
(***************************************************************************)
\* the in-window entries one analysis works on
MaxEntries == 5

\* the overall score of a theme in a sheet row: a sum of eight question
\* scores, or undefined where the cell is blank or not a number
ThemeScoreValues == {-1000, 500, 1000, undefined}

\* parsedEntries: the sorted in-window entries; an entry carries one score in
\* every theme column, or a score that differs in the first theme
ParsedEntryKinds ==
    {[themeScores |-> [t \in Themes |-> v]] : v \in ThemeScoreValues}
    \cup {[themeScores |-> [t \in Themes |-> IF t = themeOrder[1] THEN -500 ELSE 1000]]}

AllParsedEntries ==
    UNION {[1..n -> ParsedEntryKinds] : n \in 0..MaxEntries}

\* lines 208-239: the trend of one theme, from the scores of the theme in
\* the entries in date order.  The averages are quotients sum / count; the
\* comparisons avgSecondHalf > avgFirstHalf * 1.05 and avgSecondHalf <
\* avgFirstHalf * 0.95 are made on the cross products, which order as the
\* quotients do
trendOf(scores) ==
    LET processedEntriesCount == Len(scores)
        midPoint == processedEntriesCount \div 2
        firstHalf == {i \in 1..midPoint : scores[i] # undefined}
        secondHalf == {i \in (midPoint + 1)..processedEntriesCount : scores[i] # undefined}
        firstHalfSum == SumOver(scores, firstHalf)
        secondHalfSum == SumOver(scores, secondHalf)
        firstHalfCount == Cardinality(firstHalf)
        secondHalfCount == Cardinality(secondHalf)
    IN  IF processedEntriesCount < 4 THEN "Za malo danych"
        ELSE IF firstHalfCount > 0 /\ secondHalfCount > 0
        THEN IF secondHalfSum * firstHalfCount * 100 > firstHalfSum * secondHalfCount * 105
             THEN "Rosnacy"
             ELSE IF secondHalfSum * firstHalfCount * 100 < firstHalfSum * secondHalfCount * 95
             THEN "Spadkowy"
             ELSE "Stabilny"
        ELSE "Za malo danych"

\* the scores of a theme in the entries, in their order
ThemeColumn(parsedEntries, themeKey) ==
    [i \in 1..Len(parsedEntries) |-> parsedEntries[i].themeScores[themeKey]]

\* lines 203-240: the trends of all themes
calculateTrends ==
    /\ sheetAnalysis.pc = "trends"
    /\ sheetAnalysis' =
          [sheetAnalysis EXCEPT
              !.pc = "done",
              !.trends = [t \in Themes |-> trendOf(ThemeColumn(sheetAnalysis.parsedEntries, t))]]
    /\ UNCHANGED <<env, sheet, ex, home, analysis, store, speech>>

\* the statistical analysis at the point where its entries are parsed and
\* sorted
InitTrend ==
    /\ env = GoodEnv
    /\ sheet = <<>>
    /\ ex = [c \in Clients |-> IdleExport]
    /\ home = HomeInit
    /\ analysis = AnalysisInit
    /\ store = StoreInit
    /\ sheetAnalysis \in {[pc |-> "trends", parsedEntries |-> es, trends |-> <<>>] :
                             es \in AllParsedEntries}
    /\ speech = SpeechInit

NextTrend == calculateTrends

SpecTrend == InitTrend /\ [][NextTrend]_vars

\* the two half averages of a theme, as sum and count
HalfOf(scores, from, to) ==
    LET half == {i \in from..to : scores[i] # undefined}
    IN  [sum |-> SumOver(scores, half), count |-> Cardinality(half)]

Abs(x) == IF x < 0 THEN -x ELSE x

\* average b exceeds average a by more than 5% of the size of a
ExceedsByFivePercent(a, b) ==
    (b.sum * a.count - a.sum * b.count) * 100 > 5 * Abs(a.sum) * b.count

\* average b is lower than average a by more than 5% of the size of a
LowerByFivePercent(a, b) ==
    (a.sum * b.count - b.sum * a.count) * 100 > 5 * Abs(a.sum) * b.count

\* C37: with at least 4 entries in the window, a theme with scores in both
\* halves is 'Rosnacy' only when its second-half average exceeds its
\* first-half average by more than 5%, 'Spadkowy' only when it is lower by
\* more than 5%, and 'Stabilny' otherwise, in particular whenever the two
\* half averages are equal, whatever their sign; with fewer than 4 entries
\* every trend is 'Za malo danych'.
C37_TrendFollowsHalfAverages ==
    sheetAnalysis.pc = "done" =>
        \A t \in Themes :
            LET scores == ThemeColumn(sheetAnalysis.parsedEntries, t)
                n == Len(scores)
                first == HalfOf(scores, 1, n \div 2)
                second == HalfOf(scores, (n \div 2) + 1, n)
                trend == sheetAnalysis.trends[t]
            IN  IF n < 4 THEN trend = "Za malo danych"
                ELSE (first.count > 0 /\ second.count > 0) =>
                        /\ trend = "Rosnacy" <=> ExceedsByFivePercent(first, second)
                        /\ trend = "Spadkowy" <=> LowerByFivePercent(first, second)
                        /\ trend \in {"Rosnacy", "Spadkowy", "Stabilny"}


(***************************************************************************)
(* C38  when the analysis gateway is invoked                               *)
(***************************************************************************)
\* the sheet rows whose date cell parses to a day of the 30 days that end on
\* the day the sheet was read
InWindowRows(a) ==
    {r \in 2..Len(sheet) :
        LET day == DayOfCell(sheet[r][1])
        IN  day # NoCount /\ day >= TodayOf(a) - 30 /\ day <= TodayOf(a)}

\* the gateway call is pending or has returned its analysis
GatewayInvoked(a) ==
    \/ a.pc = "analyzeSheetTrends"
    \/ a.pc = "done" /\ a.result.success /\ a.result.text = "Analiza AI zakonczona."

\* C38: the analysis gateway is invoked only when at least one record falls
\* in the 30-day window: a sheet with fewer than two rows yields a failure,
\* and a sheet with no in-window row yields success with a 'no data'
\* message, in both cases without calling the gateway.
C38_GatewayOnlyWithInWindowRecord ==
    /\ GatewayInvoked(sheetAnalysis) => InWindowRows(sheetAnalysis) # {}
    /\ (Len(sheet) < 2 /\ sheetAnalysis.pc = "done") => ~sheetAnalysis.result.success
    /\ (sheetAnalysis.pc = "done" /\ sheetAnalysis.result.success
           /\ InWindowRows(sheetAnalysis) = {})
          => sheetAnalysis.result.text = "Brak danych z ostatnich 30 dni."

====
